---- MODULE Spec2Model ----
(***************************************************************************)
(* State-machine model of the lip-sync controller                          *)
(* (src/LipSyncController.js) and of the audio analyzer and blend shape    *)
(* mapper it uses (src/BlendShapeMapper.js).                               *)
(*                                                                         *)
(* Units.  Timeline offsets are in hundredths of a millisecond, so that    *)
(* speed * multiplier is an integer (multipliers and anticipation factors  *)
(* are kept in hundredths).  Weights are in millionths.  Audio times are   *)
(* in tenths of a millisecond.                                             *)
(*                                                                         *)
(* Scheduling.  The program is single threaded: every action below is one  *)
(* run-to-completion step of the event loop (a public call up to its first *)
(* await, the continuation after an await, one timer callback, one frame   *)
(* callback).  Timers of one utterance fire in the order of their delays   *)
(* (ties in creation order); timers of different utterances interleave     *)
(* freely, since the time between two calls is arbitrary.                  *)
(***************************************************************************)
EXTENDS Integers, Sequences, FiniteSets, TLC

\* ------------------------------------------------------------------ bounds
\* utterances that are awaiting their phonemes or still have unfired events
MaxUtterances == 2
\* setAudioSource calls awaiting their analysis at the same time
MaxAudioCalls == 2
\* animation-frame callbacks pending at the same time
MaxFrameLoops == 2
\* direct calls of the pose methods in one behaviour
MaxPoseSteps == 4

\* --------------------------------------------------------- program constants
phonemeOffsetMs == 50
endDelayMs == 550
transitionDuration == 105
pollIntervalMs == 50

\* AudioAnalyzer.config: the threshold on the RMS amplitude in ten-thousandths,
\* the durations in ms
silenceThreshold == 150
minPauseDuration == 150
shortPauseThreshold == 250
mediumPauseThreshold == 500
\* the time one analysis window covers, in tenths of a ms (10 ms)
windowTime == 100

NULL == "null"
Scale == 1000 * 1000
MappedWeight == (7 * Scale) \div 10
JawVowelWeight == (5 * Scale) \div 10

speechRate == [slow |-> 155, normal |-> 135, fast |-> 115]

\* anticipation as the constructor sets it (factor, offsetFactor in hundredths)
DefaultAnticipation == [enabled |-> FALSE, factor |-> 35, offsetFactor |-> 60]

PausePhonemes == {"PAUSE_SHORT", "PAUSE_MED", "PAUSE_LONG"}
JawVowels == {"AAA", "EH", "IEE", "OHH", "UUU"}

\* phonemeDurations, in hundredths; 1.0 for a phoneme that is not in the table
phonemeDurations(ph) ==
    CASE ph \in {"AAA", "OHH"} -> 130
      [] ph \in {"EH", "AHH", "IEE", "UUU"} -> 120
      [] ph \in {"SSS", "RRR", "WWW", "SSH"} -> 90
      [] ph \in {"FFF", "MBP"} -> 80
      [] ph = "TTH" -> 75
      [] ph = "PAUSE_SHORT" -> 200
      [] ph = "PAUSE_MED" -> 300
      [] ph = "PAUSE_LONG" -> 450
      [] OTHER -> 100

\* ------------------------------------------------------------ BlendShapeMapper
\* A channel name is prefix + shape; it is kept as the pair, so that the
\* mapper's string concatenation is pair construction.
Name(prefix, shape) == <<prefix, shape>>

protectedEmotionShapes ==
    { Name(p, e) : p \in {"BlendShapes_Main.", "BlendShapes_EyeLashes.", "BlendShapes_Eyebrows.",
                          "BlendShapes_Beard.", "BlendShapes_Moustache."},
                   e \in {"happy_M", "sad_M", "angry_M", "surprise_M", "fear_M"} }
    \cup { Name("BlendShapes_Mouth.", e) : e \in {"happy_M", "surprise_M", "fear_M"} }
    \cup { Name(p, e) : p \in {"BlendShape_Main.", "BlendShape_EyeLashes.", "BlendShape_Eyebrows.",
                               "BlendShape_Beard."},
                        e \in {"Happy", "Sad", "Angry", "Surprise", "Fear"} }
    \cup { Name("BlendShape_Mouth.", "Fear"), Name("BlendShape_EyeR.", "EyeLookOut_R"),
           Name("BlendShape_EyeL.", "EyeLookIn_L"), Name("BlendShape_EyeL.", "EyeLookOut_L") }

standardPhonemes(ph) ==
    CASE ph = "AAA" -> <<"aaa_M", "AHH", "Ahh">>
      [] ph = "EH"  -> <<"eh_M", "EE">>
      [] ph = "AHH" -> <<"ahh_M", "AHH", "Ahh">>
      [] ph = "OHH" -> <<"ohh_M", "OW", "OU">>
      [] ph = "UUU" -> <<"uuu_M", "OU">>
      [] ph = "IEE" -> <<"iee_M", "EE">>
      [] ph = "RRR" -> <<"rrr_M", "R">>
      [] ph = "WWW" -> <<"www_M", "W">>
      [] ph = "SSS" -> <<"sss_M">>
      [] ph = "FFF" -> <<"fff_M", "FV">>
      [] ph = "TTH" -> <<"tth_M", "TH", "Th">>
      [] ph = "MBP" -> <<"mbp_M", "MBP">>
      [] ph = "TLDN" -> <<"TLDN">>
      [] OTHER -> << >>

\* syncedMovements lists the same shapes for every model part
syncedMovements(ph) ==
    CASE ph = "AAA" -> <<"aaa_M", "AHH", "Ahh">>
      [] ph = "EH"  -> <<"eh_M", "EE">>
      [] ph = "AHH" -> <<"ahh_M", "AHH", "Ahh">>
      [] ph = "OHH" -> <<"ohh_M", "OU">>
      [] ph = "UUU" -> <<"uuu_M", "OW">>
      [] ph = "IEE" -> <<"iee_M", "EE">>
      [] ph = "RRR" -> <<"rrr_M", "R">>
      [] ph = "WWW" -> <<"www_M", "W">>
      [] ph = "SSS" -> <<"sss_M", "FV">>
      [] ph = "FFF" -> <<"fff_M", "FV">>
      [] ph = "TTH" -> <<"tth_M", "TH", "Th">>
      [] ph = "MBP" -> <<"mbp_M", "MBP">>
      [] ph = "TLDN" -> <<"TLDN">>
      [] OTHER -> << >>

ModelParts == <<"head", "mouth", "beard", "moustache">>

prefixMappings(part) ==
    CASE part = "head" -> <<"BlendShapes_Main.", "BlendShape_Main.">>
      [] part = "mouth" -> <<"BlendShapes_Mouth.", "BlendShape_Mouth.">>
      [] part = "beard" -> <<"BlendShapes_Beard.", "BlendShape_Beard.", "BlendShapes_Beards.">>
      [] part = "moustache" -> <<"BlendShapes_Moustache.", "BlendShape_Moustache.">>
      [] OTHER -> << >>

Range(s) == { s[i] : i \in DOMAIN s }

\* String.prototype.toLowerCase on the prefixes and shapes that occur in the
\* protected list and in the modelled character
toLowerCase(str) ==
    CASE str = "BlendShapes_Main." -> "blendshapes_main."
      [] str = "BlendShapes_EyeLashes." -> "blendshapes_eyelashes."
      [] str = "BlendShapes_Eyebrows." -> "blendshapes_eyebrows."
      [] str = "BlendShapes_Beard." -> "blendshapes_beard."
      [] str = "BlendShapes_Moustache." -> "blendshapes_moustache."
      [] str = "BlendShapes_Mouth." -> "blendshapes_mouth."
      [] str = "BlendShapes_Teeth." -> "blendshapes_teeth."
      [] str = "BlendShape_Main." -> "blendshape_main."
      [] str = "BlendShape_EyeLashes." -> "blendshape_eyelashes."
      [] str = "BlendShape_Eyebrows." -> "blendshape_eyebrows."
      [] str = "BlendShape_Beard." -> "blendshape_beard."
      [] str = "BlendShape_Mouth." -> "blendshape_mouth."
      [] str = "BlendShape_EyeR." -> "blendshape_eyer."
      [] str = "BlendShape_EyeL." -> "blendshape_eyel."
      [] str = "happy_M" -> "happy_m" [] str = "sad_M" -> "sad_m"
      [] str = "angry_M" -> "angry_m" [] str = "surprise_M" -> "surprise_m"
      [] str = "fear_M" -> "fear_m"
      [] str = "Happy" -> "happy" [] str = "Sad" -> "sad" [] str = "Angry" -> "angry"
      [] str = "Surprise" -> "surprise" [] str = "Fear" -> "fear"
      [] str = "EyeLookOut_R" -> "eyelookout_r" [] str = "EyeLookIn_L" -> "eyelookin_l"
      [] str = "EyeLookOut_L" -> "eyelookout_l"
      [] str = "FEAR_L" -> "fear_l"
      [] str = "aaa_M" -> "aaa_m" [] str = "ahh_M" -> "ahh_m"
      [] str = "mouth_open_M" -> "mouth_open_m"
      [] OTHER -> str

\* the protected list as the test sees it: every entry lower-cased
loweredProtectedShapes ==
    { Name(toLowerCase(p[1]), toLowerCase(p[2])) : p \in protectedEmotionShapes }

\* the strings of the model a lower-cased shape starts with: itself, and for
\* "fear_l", the only shape of the modelled character that properly extends
\* another string of the model, also "fear"
startsOf(shape) == IF shape = "fear_l" THEN {"fear_l", "fear"} ELSE {shape}

\* the test as it would be if it compared whole names in their own case
isProtectedEmotionShape_caseSensitive(name) == name \in protectedEmotionShapes

\* protectedEmotionShapes.some(p => shapeName.toLowerCase().includes(p.toLowerCase()))
\* for names with one dot each: the dots coincide, so an entry is included
\* when its prefix ends the name's prefix (no prefix of the model properly
\* ends another one) and its shape begins the name's shape
isProtectedEmotionShape(name) ==
    \E start \in startsOf(toLowerCase(name[2])) :
        Name(toLowerCase(name[1]), start) \in loweredProtectedShapes

\* mapPhonemeToBlendShapes: the names matched (each with weight 0.7); the
\* code's list has no duplicates and callers only look at its members
mapPhonemeToBlendShapes(available, ph, part) ==
    { n \in { Name(p, v) : p \in Range(prefixMappings(part)),
                           v \in Range(standardPhonemes(ph)) \cup Range(syncedMovements(ph)) } :
        n \in available /\ ~isProtectedEmotionShape(n) }

\* ------------------------------------------------------------------ fixtures
\* blendShapeControls of the character: every control has a mesh, an index
\* and a name equal to its key
blendShapeControls ==
    { Name("BlendShapes_Main.", "aaa_M"),
      Name("BlendShapes_Main.", "ahh_M"),
      Name("BlendShapes_Main.", "mouth_open_M"),
      Name("BlendShapes_Mouth.", "mouth_open_M"),
      Name("BlendShapes_Main.", "happy_M"),
      Name("BlendShape_Mouth.", "FEAR_L") }

NonProtected == { n \in blendShapeControls : ~isProtectedEmotionShape(n) }

\* the controls of the character that the mapper's list protects: one the
\* list names as it is spelt, one it matches as a substring in another case
ProtectedChannels == { Name("BlendShapes_Main.", "happy_M"), Name("BlendShape_Mouth.", "FEAR_L") }

\* the weight the emotion controller holds on the protected channels
EmotionWeight == (3 * Scale) \div 10

\* texts passed to speak and preparePhonemes, as character sequences
EmptyText == << >>
Texts == { EmptyText, <<"m", "a">>, <<"t", "h", "e">> }

\* what the phonetic service answers for a text when the request succeeds
RemoteSequence(text) ==
    CASE text = <<"m", "a">> -> <<"AAA", "PAUSE_MED">>
      [] text = <<"a", "s">> -> <<"AAA", "PAUSE_MED", "SSS">>
      [] text = <<"s">> -> << >>
      [] text = <<"o">> -> <<"SCHWA", "OHH">>
      [] OTHER -> <<"TTH", "AAA">>

\* texts and speeds of the utterances whose schedules are examined: the
\* service answers them with a pause inside, with no phoneme at all, and with
\* a phoneme the duration table does not hold
ScheduleTexts == { <<"a", "s">>, <<"s">>, <<"o">> }
ScheduleSpeeds == {"slow", "normal", "fast"}

Speeds == {"normal", "fast", "brisk"}

\* ----------------------------------------------------------- AudioAnalyzer
\* Math.floor(sampleRate * 0.01): the double product has the integer part
\* of sampleRate / 100 for every whole rate up to 200000
windowSize(sampleRate) == sampleRate \div 100

\* the iterations of "for (i = 0; i < length; i += windowSize)"
LoopWindows(length, size) == (length + size - 1) \div size

\* sample rates of decoded buffers, and lengths in samples
SampleRates == {8000, 11025, 16000, 22050, 32000, 44056, 44100, 48000}
SampleCounts == {1, 80, 110, 220, 221, 441, 480, 1000, 2205, 4410, 8000, 22050, 44100, 48000}

\* A decoded buffer is its windows and its length in tenths of a ms. The
\* windows are given as runs: so many windows in a row with the same RMS
\* amplitude, in ten-thousandths. The sample rate is a multiple of 100, so
\* that a window is 10 ms and window i (from 0) starts at i * windowTime.
\* Times are in tenths of a ms.
Run(windows, rms) == [windows |-> windows, rms |-> rms]
Buffer(runs, length) ==
    [runs |-> SelectSeq(runs, LAMBDA run : run.windows > 0), length |-> length]

\* the windows of the runs before run k
RECURSIVE WindowsBefore(_, _)
WindowsBefore(runs, k) ==
    IF k = 1 THEN 0 ELSE WindowsBefore(runs, k - 1) + runs[k - 1].windows

\* The start windows (from 0) for which the double
\* (timeSeconds - pauseStart) * 1000 of a pause of 15, 25 and 50 windows is
\* just below 150, 250 and 500: e.g. (0.29 - 0.14) * 1000 is
\* 149.99999999999997. Listed for the first 181 windows.
RoundsBelow150 ==
    {       14, 20, 26, 27, 28, 32, 33, 34, 42, 43, 44, 45, 46, 54, 55, 56, 67, 68, 79, 80, 81,
      98, 99, 100, 101, 102, 103, 104, 105, 106, 107, 108, 109, 110, 111, 112, 123, 124,
      125, 126, 127, 128, 129, 130, 131, 132, 133, 134, 135, 136, 137, 148, 149, 150,
      151, 152, 153, 154, 155, 156, 157, 158, 159, 160, 161, 162, 173, 174, 175, 176,
      177, 178, 179, 180 }
RoundsBelow250 ==
    {       4, 10, 16, 17, 22, 23, 32, 33, 34, 44, 45, 46, 88, 89, 90, 91, 92, 93, 176, 178,
      180 }
RoundsBelow500 ==
    {       7, 8, 19, 20, 32, 33, 34, 44, 45, 46, 63, 64, 65, 66, 67, 68, 88, 89, 90, 91, 92,
      93, 151, 153, 155, 157, 159, 161, 176, 178, 180 }

RoundsBelow(start, end) ==
    LET w == start \div windowTime
    IN  /\ start % windowTime = 0
        /\ \/ end - start = 1500 /\ w \in RoundsBelow150
           \/ end - start = 2500 /\ w \in RoundsBelow250
           \/ end - start = 5000 /\ w \in RoundsBelow500

\* (timeSeconds - pauseStart) * 1000 in thousandths of a ms, to the precision
\* the comparisons with the thresholds need: a double just below a threshold
\* is that threshold less one thousandth
pauseDuration(start, end) == (end - start) * 100 - (IF RoundsBelow(start, end) THEN 1 ELSE 0)

\* the classification as it would be with <= for <
classifyPause_inclusive(duration) ==
    IF duration <= shortPauseThreshold * 1000 THEN "PAUSE_SHORT"
    ELSE IF duration <= mediumPauseThreshold * 1000 THEN "PAUSE_MED"
    ELSE "PAUSE_LONG"

\* the classification of a recorded pause
classifyPause(duration) ==
    IF duration < shortPauseThreshold * 1000 THEN "PAUSE_SHORT"
    ELSE IF duration < mediumPauseThreshold * 1000 THEN "PAUSE_MED"
    ELSE "PAUSE_LONG"

\* pauses after a pause from start to end has been closed
pushPause(pauses, start, end) ==
    LET duration == pauseDuration(start, end)
    IN  IF duration >= minPauseDuration * 1000
        THEN Append(pauses, [start |-> start, end |-> end, duration |-> duration,
                             type |-> classifyPause(duration)])
        ELSE pauses

\* the loop as it would be if pauseStart were assigned for the first pause
\* of a buffer only
RECURSIVE scanWindows_staleStart(_, _, _, _, _)
scanWindows_staleStart(buffer, k, inPause, pauseStart, pauses) ==
    IF k > Len(buffer.runs)
    THEN IF inPause THEN pushPause(pauses, pauseStart, buffer.length) ELSE pauses
    ELSE LET isSilent == buffer.runs[k].rms < silenceThreshold
             timeSeconds == WindowsBefore(buffer.runs, k) * windowTime
         IN  IF isSilent /\ ~inPause
             THEN scanWindows_staleStart(buffer, k + 1, TRUE,
                                         IF pauses = << >> THEN timeSeconds ELSE pauseStart, pauses)
             ELSE IF ~isSilent /\ inPause
             THEN scanWindows_staleStart(buffer, k + 1, FALSE, pauseStart,
                                         pushPause(pauses, pauseStart, timeSeconds))
             ELSE scanWindows_staleStart(buffer, k + 1, inPause, pauseStart, pauses)

\* the loop over the windows, from the first window of run k on. Of the
\* windows of a run only the first can take a branch: after it inPause
\* agrees with isSilent for the rest of the run.
RECURSIVE scanWindows(_, _, _, _, _)
scanWindows(buffer, k, inPause, pauseStart, pauses) ==
    IF k > Len(buffer.runs)
    THEN IF inPause THEN pushPause(pauses, pauseStart, buffer.length) ELSE pauses
    ELSE LET isSilent == buffer.runs[k].rms < silenceThreshold
             timeSeconds == WindowsBefore(buffer.runs, k) * windowTime
         IN  IF isSilent /\ ~inPause
             THEN scanWindows(buffer, k + 1, TRUE, timeSeconds, pauses)
             ELSE IF ~isSilent /\ inPause
             THEN scanWindows(buffer, k + 1, FALSE, pauseStart,
                              pushPause(pauses, pauseStart, timeSeconds))
             ELSE scanWindows(buffer, k + 1, inPause, pauseStart, pauses)

detectPauses(buffer) == scanWindows(buffer, 1, FALSE, 0, << >>)

\* amplitudes of speech and of silence
Loud == 900
Quiet == 20

\* buffers handed to analyzeAudio: speech, a silence, speech at the threshold
\* amplitude, a second silence or none, speech or the end of the buffer; the
\* silences have the lengths around the thresholds, and the last window may
\* be half a window
LeadWindows == {0, 4, 13, 14}
SilenceWindows == {10, 14, 15, 16, 24, 25, 26, 49, 50, 51}
SecondSilenceWindows == {0, 15, 25}
TailWindows == {0, 2}
QuietAmplitudes == {0, silenceThreshold - 1}
GapWindows == 3
HalfWindow == 50

Buffers ==
    { Buffer(<< Run(lead, Loud), Run(first, quiet), Run(GapWindows, silenceThreshold),
                Run(second, quiet), Run(tail, Loud) >>,
             (lead + first + GapWindows + second + tail) * windowTime - cut) :
            lead \in LeadWindows, first \in SilenceWindows, second \in SecondSilenceWindows,
            tail \in TailWindows, quiet \in QuietAmplitudes, cut \in {0, HalfWindow} }
    \cup
    \* buffers that are silent throughout
    { Buffer(<< Run(first, quiet) >>, first * windowTime - cut) :
            first \in SilenceWindows, quiet \in QuietAmplitudes, cut \in {0, HalfWindow} }

\* times getPauseAtTime is asked about: every window boundary and the
\* tenths of a ms next to it
QueryTimes == { w * windowTime + d : w \in 0..96, d \in {-1, 0, 1} }

\* audio data handed to setAudioSource (as a blob, or behind the element's
\* src) and what analyzeAudio makes of it: "corrupt" does not decode
AudioData == {"clipA", "clipB", "steady", "corrupt"}

Decodes(data) == data # "corrupt"

\* what the data decodes to: clipA is silent from 200 to 400 ms and from
\* 1000 to 1600 ms, clipB from 300 to 700 ms, the others never
BufferOf(data) ==
    CASE data = "clipA" -> Buffer(<< Run(20, Loud), Run(20, Quiet), Run(60, Loud), Run(60, Quiet),
                                     Run(10, Loud) >>, 17000)
      [] data = "clipB" -> Buffer(<< Run(30, Loud), Run(40, Quiet), Run(10, Loud) >>, 8000)
      [] OTHER -> Buffer(<< Run(50, Loud) >>, 5000)

\* the intervals detectPauses returns for the decoded data
ClipAPauses == detectPauses(BufferOf("clipA"))
ClipBPauses == detectPauses(BufferOf("clipB"))
PausesOf(data) ==
    CASE data = "clipA" -> ClipAPauses
      [] data = "clipB" -> ClipBPauses
      [] OTHER -> << >>

\* audio elements: el.src is NULL for an element without a URL
AudioElements == { [id |-> "el1", src |-> NULL], [id |-> "el2", src |-> "clipB"] }

\* values currentAudio.currentTime is read at
ClockReadings == {1000, 2000, 3500, 4000, 12000}

\* elapsed time between two frames, in ms
FrameDeltas == {0, 105}

\* ------------------------------------------------------------ pure functions
Min(a, b) == IF a < b THEN a ELSE b
Max(a, b) == IF a > b THEN a ELSE b

MapSet(m, k, v) == [x \in (DOMAIN m) \cup {k} |-> IF x = k THEN v ELSE m[x]]
MapGet(m, k, dflt) == IF k \in DOMAIN m THEN m[k] ELSE dflt
EmptyMap == [x \in {} |-> 0]

toUpperCase(c) ==
    CASE c = "m" -> "M" [] c = "a" -> "A" [] c = "t" -> "T" [] c = "h" -> "H"
      [] c = "e" -> "E" [] c = "s" -> "S" [] c = "o" -> "O" [] OTHER -> c

getPhonemeFromChar(char, nextChar) ==
    IF nextChar # NULL /\ char = "T" /\ nextChar = "H" THEN "TTH"
    ELSE CASE char = "A" -> "AAA" [] char = "E" -> "EH" [] char = "I" -> "IEE"
           [] char = "O" -> "OHH" [] char = "U" -> "UUU"
           [] char \in {"F", "V"} -> "FFF"
           [] char \in {"M", "B", "P"} -> "MBP"
           [] char = "R" -> "RRR" [] char = "S" -> "SSS" [] char = "W" -> "WWW"
           [] OTHER -> "MBP"

\* the while loop of preparePhonemes from index i on
RECURSIVE CharPhonemes(_, _)
CharPhonemes(chars, i) ==
    IF i > Len(chars) THEN << >>
    ELSE LET phoneme == getPhonemeFromChar(chars[i], IF i < Len(chars) THEN chars[i + 1] ELSE NULL)
         IN  <<phoneme>> \o CharPhonemes(chars, IF phoneme = "TTH" THEN i + 2 ELSE i + 1)

FallbackPhonemes(text) == CharPhonemes([i \in DOMAIN text |-> toUpperCase(text[i])], 1)

\* what speak and preparePhonemes store in preparedPhonemes
Prepared(phonemes, ant, speedMs) ==
    [phonemes |-> phonemes, anticipationEnabled |-> ant.enabled,
     anticipationFactor |-> ant.factor, anticipationOffset |-> speedMs * ant.offsetFactor]

\* the running offset as it would be if every phoneme lasted speedMs
RECURSIVE RunningOffset_flat(_, _, _)
RunningOffset_flat(phonemes, speedMs, i) ==
    IF i = 1 THEN phonemeOffsetMs * 100
    ELSE RunningOffset_flat(phonemes, speedMs, i - 1) + speedMs * 100

\* currentTime at the top of iteration i of the scheduling loop
RECURSIVE RunningOffset(_, _, _)
RunningOffset(phonemes, speedMs, i) ==
    IF i = 1 THEN phonemeOffsetMs * 100
    ELSE RunningOffset(phonemes, speedMs, i - 1) + speedMs * phonemeDurations(phonemes[i - 1])

\* the timers as they would be if the anticipation timer did not depend on
\* anticipationEnabled
TimelineEvents_unguarded(pp, speedMs, utt) ==
    { [utt |-> utt, seq |-> 2 * i - 1, kind |-> "Apply", ph |-> pp.phonemes[i], next |-> NULL,
       factor |-> 0, offset |-> RunningOffset(pp.phonemes, speedMs, i)] : i \in 1..Len(pp.phonemes) }
    \cup
    { [utt |-> utt, seq |-> 2 * i, kind |-> "Anticipate", ph |-> pp.phonemes[i],
       next |-> pp.phonemes[i + 1], factor |-> pp.anticipationFactor,
       offset |-> RunningOffset(pp.phonemes, speedMs, i) + pp.anticipationOffset] :
         i \in 1..(Len(pp.phonemes) - 1) }

\* the timers the loop of startPreparedAnimation starts; seq is the order of
\* the setTimeout calls
TimelineEvents(pp, speedMs, utt) ==
    { [utt |-> utt, seq |-> 2 * i - 1, kind |-> "Apply", ph |-> pp.phonemes[i], next |-> NULL,
       factor |-> 0, offset |-> RunningOffset(pp.phonemes, speedMs, i)] : i \in 1..Len(pp.phonemes) }
    \cup
    { [utt |-> utt, seq |-> 2 * i, kind |-> "Anticipate", ph |-> pp.phonemes[i],
       next |-> pp.phonemes[i + 1], factor |-> pp.anticipationFactor,
       offset |-> RunningOffset(pp.phonemes, speedMs, i) + pp.anticipationOffset] :
         i \in { j \in 1..(Len(pp.phonemes) - 1) : pp.anticipationEnabled } }

\* lastPhonemeTime as it would be if it were the offset of the last Apply
LastPhonemeTime_lastApply(phonemes, speedMs) ==
    IF Len(phonemes) = 0 THEN 0 ELSE RunningOffset(phonemes, speedMs, Len(phonemes))

\* lastPhonemeTime as it would be if it were assigned currentTime after the loop
LastPhonemeTime_afterLoop(phonemes, speedMs) ==
    RunningOffset(phonemes, speedMs, Len(phonemes) + 1)

\* lastPhonemeTime after the loop (0 when the loop body never ran)
LastPhonemeTime(phonemes, speedMs) ==
    IF Len(phonemes) = 0 THEN 0 ELSE RunningOffset(phonemes, speedMs, Len(phonemes) + 1)

\* ---------------------------------------------------------------------- state
VARIABLES
    isAnimating,            \* this.isAnimating
    phonemeSpeedMs,         \* this.phonemeSpeedMs
    anticipation,           \* this.anticipation
    preparedPhonemes,       \* this.preparedPhonemes: << >> for null, else <<record>>
    lastPhonemeTime,        \* this.lastPhonemeTime, hundredths of a ms
    targetBlendShapes,      \* this.targetBlendShapes, a Map
    currentBlendShapes,     \* this.currentBlendShapes, a Map
    output,                 \* control.value = mesh.morphTargetInfluences[control.index]
    phoneticCache,          \* this.phoneticCache, a Map from text to sequence
    usingAudioBasedPauses,  \* this.usingAudioBasedPauses
    currentAudio,           \* this.currentAudio: NULL or the element's id
    pauseUpdateInterval,    \* this.pauseUpdateInterval: 0 for null, else the timer's handle
    detectedPauses,         \* this.detectedPauses
    lastAppliedPauseId,     \* this.lastAppliedPauseId: << >> for null, else the id
    currentlyInPause,       \* this.currentlyInPause
    audioContext,           \* audioAnalyzer.audioContext was created
    analyzerPauses,         \* audioAnalyzer.pauses
    timers,                 \* host: pending setTimeout callbacks of the timelines
    liveIntervals,          \* host: handles of the setInterval timers not cleared
    rafPending,             \* host: pending requestAnimationFrame callbacks of animate()
    speakCalls,             \* speak calls suspended at "await this.getPhonemes(text)"
    audioCalls,             \* setAudioSource calls suspended at their "await"
    currentUtt,             \* history: the utterance whose timeline was scheduled last
    pollHist,               \* history: where the polls since the last reset of the tracking state were
    stoppedSince,           \* history: stopAnimation has run and no setAudioSource has begun since
    poseSteps,              \* history: direct calls of the pose methods so far
    lastOp                  \* history: the step taken last and what it returned

vars == << isAnimating, phonemeSpeedMs, anticipation, preparedPhonemes, lastPhonemeTime,
           targetBlendShapes, currentBlendShapes, output, phoneticCache,
           usingAudioBasedPauses, currentAudio, pauseUpdateInterval, detectedPauses,
           lastAppliedPauseId, currentlyInPause, audioContext, analyzerPauses,
           timers, liveIntervals, rafPending, speakCalls, audioCalls, currentUtt,
           pollHist, stoppedSince, poseSteps, lastOp >>

\* the whole state as one record, so that a method is a function from the
\* state before the call to the state after it and calls compose as in the code
This ==
    [ isAnimating |-> isAnimating, phonemeSpeedMs |-> phonemeSpeedMs,
      anticipation |-> anticipation, preparedPhonemes |-> preparedPhonemes,
      lastPhonemeTime |-> lastPhonemeTime, targetBlendShapes |-> targetBlendShapes,
      currentBlendShapes |-> currentBlendShapes, output |-> output,
      phoneticCache |-> phoneticCache, usingAudioBasedPauses |-> usingAudioBasedPauses,
      currentAudio |-> currentAudio, pauseUpdateInterval |-> pauseUpdateInterval,
      detectedPauses |-> detectedPauses, lastAppliedPauseId |-> lastAppliedPauseId,
      currentlyInPause |-> currentlyInPause, audioContext |-> audioContext,
      analyzerPauses |-> analyzerPauses, timers |-> timers, liveIntervals |-> liveIntervals,
      rafPending |-> rafPending, speakCalls |-> speakCalls, audioCalls |-> audioCalls,
      currentUtt |-> currentUtt, pollHist |-> pollHist, stoppedSince |-> stoppedSince,
      poseSteps |-> poseSteps, lastOp |-> lastOp ]

Becomes(s) ==
    /\ isAnimating' = s.isAnimating
    /\ phonemeSpeedMs' = s.phonemeSpeedMs
    /\ anticipation' = s.anticipation
    /\ preparedPhonemes' = s.preparedPhonemes
    /\ lastPhonemeTime' = s.lastPhonemeTime
    /\ targetBlendShapes' = s.targetBlendShapes
    /\ currentBlendShapes' = s.currentBlendShapes
    /\ output' = s.output
    /\ phoneticCache' = s.phoneticCache
    /\ usingAudioBasedPauses' = s.usingAudioBasedPauses
    /\ currentAudio' = s.currentAudio
    /\ pauseUpdateInterval' = s.pauseUpdateInterval
    /\ detectedPauses' = s.detectedPauses
    /\ lastAppliedPauseId' = s.lastAppliedPauseId
    /\ currentlyInPause' = s.currentlyInPause
    /\ audioContext' = s.audioContext
    /\ analyzerPauses' = s.analyzerPauses
    /\ timers' = s.timers
    /\ liveIntervals' = s.liveIntervals
    /\ rafPending' = s.rafPending
    /\ speakCalls' = s.speakCalls
    /\ audioCalls' = s.audioCalls
    /\ currentUtt' = s.currentUtt
    /\ pollHist' = s.pollHist
    /\ stoppedSince' = s.stoppedSince
    /\ poseSteps' = s.poseSteps
    /\ lastOp' = s.lastOp

\* what a step records of itself: op names the step, ret the value a call
\* returned or resolved to ("none" where nothing returns), dur the number
\* when ret = "number", text the text a speak call was given
Op(op, ret, dur, text) == [op |-> op, ret |-> ret, dur |-> dur, text |-> text]

\* the state the constructor leaves (initializeBlendShapes included); ctx says
\* whether the analyzer could create its audio context
Constructed(ctx) ==
    /\ isAnimating = FALSE
    /\ phonemeSpeedMs = 135
    /\ anticipation = DefaultAnticipation
    /\ preparedPhonemes = << >>
    /\ lastPhonemeTime = 0
    /\ targetBlendShapes = [n \in NonProtected |-> 0]
    /\ currentBlendShapes = [n \in NonProtected |-> 0]
    /\ output = [n \in blendShapeControls |-> IF n \in NonProtected THEN 0 ELSE EmotionWeight]
    /\ phoneticCache = EmptyMap
    /\ usingAudioBasedPauses = FALSE
    /\ currentAudio = NULL
    /\ pauseUpdateInterval = 0
    /\ detectedPauses = << >>
    /\ lastAppliedPauseId = << >>
    /\ currentlyInPause = FALSE
    /\ audioContext = ctx
    /\ analyzerPauses = << >>
    /\ timers = {}
    /\ liveIntervals = {}
    /\ rafPending = 0
    /\ speakCalls = << >>
    /\ audioCalls = << >>
    /\ currentUtt = 0
    /\ pollHist = << >>
    /\ stoppedSince = FALSE
    /\ poseSteps = 0
    /\ lastOp = Op("constructor", "none", 0, EmptyText)

Init == Constructed(TRUE)

InitSync == \E ctx \in BOOLEAN : Constructed(ctx)

\* -------------------------------------------------------------------- methods
\* Each takes the state s before the call and gives the state after it.

SetAll(m, keys, v) == [x \in (DOMAIN m) \cup keys |-> IF x \in keys THEN v ELSE m[x]]
Restrict(m, keys) == [x \in (DOMAIN m) \cap keys |-> m[x]]

\* weight * (pct / 100)
Mul(w, pct) == (w * pct) \div 100

\* clearAudioSource as it would be without the reset of the tracking state
clearAudioSource_keepTracking(s) ==
    [s EXCEPT !.liveIntervals = IF s.pauseUpdateInterval # 0 THEN @ \ {s.pauseUpdateInterval} ELSE @,
              !.pauseUpdateInterval = 0,
              !.currentAudio = NULL,
              !.detectedPauses = << >>,
              !.usingAudioBasedPauses = FALSE,
              !.pollHist = << >>]

clearAudioSource(s) ==
    [s EXCEPT !.liveIntervals = IF s.pauseUpdateInterval # 0 THEN @ \ {s.pauseUpdateInterval} ELSE @,
              !.pauseUpdateInterval = 0,
              !.currentAudio = NULL,
              !.detectedPauses = << >>,
              !.usingAudioBasedPauses = FALSE,
              !.lastAppliedPauseId = << >>,
              !.currentlyInPause = FALSE,
              !.pollHist = << >>]

\* resetBlendShapes as it would be without its second loop (the outputs)
resetBlendShapes_mapsOnly(s) ==
    LET gone == { n \in DOMAIN s.targetBlendShapes : ~isProtectedEmotionShape(n) }
    IN  [s EXCEPT !.targetBlendShapes = Restrict(@, (DOMAIN @) \ gone),
                  !.currentBlendShapes = Restrict(@, (DOMAIN @) \ gone)]

resetBlendShapes(s) ==
    LET gone == { n \in DOMAIN s.targetBlendShapes : ~isProtectedEmotionShape(n) }
    IN  [s EXCEPT !.targetBlendShapes = Restrict(@, (DOMAIN @) \ gone),
                  !.currentBlendShapes = Restrict(@, (DOMAIN @) \ gone),
                  !.output = [n \in DOMAIN @ |-> IF isProtectedEmotionShape(n) THEN @[n] ELSE 0]]

stopAnimation(s) ==
    resetBlendShapes(clearAudioSource([s EXCEPT !.isAnimating = FALSE, !.stoppedSince = TRUE]))

\* the jawControls lists: the one of the pause branch of applyPhoneme and the
\* one of the vowel branches (they differ in the source)
PauseJawNames ==
    { Name("BlendShapes_Main.", "mouth_open_M"), Name("BlendShape_Main.", "MouthOpen"),
      Name("BlendShapes_Mouth.", "mouth_open_M"), Name("BlendShape_Mouth.", "MouthOpen"),
      Name("BlendShapes_Beard.", "mouth_open_M"), Name("BlendShape_Beard.", "MouthOpen"),
      Name("BlendShapes_Moustache.", "mouth_open_M"), Name("BlendShape_Moustache.", "MouthOpen") }

VowelJawNames ==
    { Name("BlendShapes_Mouth.", "mouth_open_M"), Name("BlendShape_Main.", "MouthOpen"),
      Name("BlendShapes_Teeth.", "mouth_open_M"), Name("BlendShape_Teeth.", "MouthOpen"),
      Name("BlendShapes_Beard.", "mouth_open_M"), Name("BlendShape_Beard.", "MouthOpen"),
      Name("BlendShapes_Moustache.", "mouth_open_M"), Name("BlendShape_Moustache.", "MouthOpen") }

JawControls(names) == { n \in names \cap blendShapeControls : ~isProtectedEmotionShape(n) }

\* the shapes mapped for a phoneme over the four model parts
MappedShapes(ph) ==
    UNION { mapPhonemeToBlendShapes(NonProtected, ph, ModelParts[i]) : i \in DOMAIN ModelParts }

\* applyPhoneme as it would be with a resting jaw opening of 0.1 in pauses
applyPhoneme_restingJaw(s, ph) ==
    IF ph \in PausePhonemes
    THEN [s EXCEPT !.targetBlendShapes =
              SetAll(SetAll(@, NonProtected, 0), JawControls(PauseJawNames), Scale \div 10)]
    ELSE LET reset == SetAll(s.targetBlendShapes, NonProtected, 0)
             mapped == SetAll(reset, { n \in MappedShapes(ph) : n \in blendShapeControls }, MappedWeight)
         IN  [s EXCEPT !.targetBlendShapes =
                  IF ph \in JawVowels
                  THEN SetAll(mapped, JawControls(VowelJawNames), JawVowelWeight)
                  ELSE mapped]

applyPhoneme(s, ph) ==
    IF ph \in PausePhonemes
    THEN [s EXCEPT !.targetBlendShapes =
              SetAll(SetAll(@, NonProtected, 0), JawControls(PauseJawNames), 0)]
    ELSE LET reset == SetAll(s.targetBlendShapes, NonProtected, 0)
             mapped == SetAll(reset, { n \in MappedShapes(ph) : n \in blendShapeControls }, MappedWeight)
         IN  [s EXCEPT !.targetBlendShapes =
                  IF ph \in JawVowels
                  THEN SetAll(mapped, JawControls(VowelJawNames), JawVowelWeight)
                  ELSE mapped]

\* applyAnticipatedPhoneme as it would be if the test for a pause as current
\* phoneme came before the one for a pause as next phoneme
applyAnticipatedPhoneme_pauseFirst(s, currentPhoneme, nextPhoneme, blendFactor) ==
    IF nextPhoneme = NULL \/ currentPhoneme \in PausePhonemes THEN s
    ELSE IF nextPhoneme \in PausePhonemes
    THEN [s EXCEPT !.targetBlendShapes =
              [n \in (DOMAIN @) \cup NonProtected |->
                  IF n \in NonProtected THEN Mul(MapGet(@, n, 0), 100 - blendFactor) ELSE @[n]]]
    ELSE IF currentPhoneme \in PausePhonemes THEN s
    ELSE LET cur == { n \in MappedShapes(currentPhoneme) : n \in blendShapeControls }
             nxt == { n \in MappedShapes(nextPhoneme) : n \in blendShapeControls }
             blended == [n \in cur \cup nxt |->
                            (IF n \in cur THEN Mul(MappedWeight, 100 - blendFactor) ELSE 0)
                          + (IF n \in nxt THEN Mul(MappedWeight, blendFactor) ELSE 0)]
             withShapes == [n \in (DOMAIN s.targetBlendShapes) \cup DOMAIN blended |->
                               IF n \in DOMAIN blended THEN blended[n] ELSE s.targetBlendShapes[n]]
             isCurrentVowel == currentPhoneme \in JawVowels
             isNextVowel == nextPhoneme \in JawVowels
             blendedJawWeight ==
                   (IF isCurrentVowel THEN Mul(JawVowelWeight, 100 - blendFactor) ELSE 0)
                 + (IF isNextVowel THEN Mul(JawVowelWeight, blendFactor) ELSE 0)
         IN  [s EXCEPT !.targetBlendShapes =
                  IF isCurrentVowel \/ isNextVowel
                  THEN SetAll(withShapes, JawControls(VowelJawNames), blendedJawWeight)
                  ELSE withShapes]

\* applyAnticipatedPhoneme as it would be without the early return for a
\* pause as current phoneme
applyAnticipatedPhoneme_noCleanStart(s, currentPhoneme, nextPhoneme, blendFactor) ==
    IF nextPhoneme = NULL THEN s
    ELSE IF nextPhoneme \in PausePhonemes
    THEN [s EXCEPT !.targetBlendShapes =
              [n \in (DOMAIN @) \cup NonProtected |->
                  IF n \in NonProtected THEN Mul(MapGet(@, n, 0), 100 - blendFactor) ELSE @[n]]]
    ELSE LET cur == { n \in MappedShapes(currentPhoneme) : n \in blendShapeControls }
             nxt == { n \in MappedShapes(nextPhoneme) : n \in blendShapeControls }
             blended == [n \in cur \cup nxt |->
                            (IF n \in cur THEN Mul(MappedWeight, 100 - blendFactor) ELSE 0)
                          + (IF n \in nxt THEN Mul(MappedWeight, blendFactor) ELSE 0)]
             withShapes == [n \in (DOMAIN s.targetBlendShapes) \cup DOMAIN blended |->
                               IF n \in DOMAIN blended THEN blended[n] ELSE s.targetBlendShapes[n]]
             isCurrentVowel == currentPhoneme \in JawVowels
             isNextVowel == nextPhoneme \in JawVowels
             blendedJawWeight ==
                   (IF isCurrentVowel THEN Mul(JawVowelWeight, 100 - blendFactor) ELSE 0)
                 + (IF isNextVowel THEN Mul(JawVowelWeight, blendFactor) ELSE 0)
         IN  [s EXCEPT !.targetBlendShapes =
                  IF isCurrentVowel \/ isNextVowel
                  THEN SetAll(withShapes, JawControls(VowelJawNames), blendedJawWeight)
                  ELSE withShapes]

applyAnticipatedPhoneme(s, currentPhoneme, nextPhoneme, blendFactor) ==
    IF nextPhoneme = NULL THEN s
    ELSE IF nextPhoneme \in PausePhonemes
    THEN [s EXCEPT !.targetBlendShapes =
              [n \in (DOMAIN @) \cup NonProtected |->
                  IF n \in NonProtected THEN Mul(MapGet(@, n, 0), 100 - blendFactor) ELSE @[n]]]
    ELSE IF currentPhoneme \in PausePhonemes THEN s
    ELSE LET cur == { n \in MappedShapes(currentPhoneme) : n \in blendShapeControls }
             nxt == { n \in MappedShapes(nextPhoneme) : n \in blendShapeControls }
             blended == [n \in cur \cup nxt |->
                            (IF n \in cur THEN Mul(MappedWeight, 100 - blendFactor) ELSE 0)
                          + (IF n \in nxt THEN Mul(MappedWeight, blendFactor) ELSE 0)]
             withShapes == [n \in (DOMAIN s.targetBlendShapes) \cup DOMAIN blended |->
                               IF n \in DOMAIN blended THEN blended[n] ELSE s.targetBlendShapes[n]]
             isCurrentVowel == currentPhoneme \in JawVowels
             isNextVowel == nextPhoneme \in JawVowels
             blendedJawWeight ==
                   (IF isCurrentVowel THEN Mul(JawVowelWeight, 100 - blendFactor) ELSE 0)
                 + (IF isNextVowel THEN Mul(JawVowelWeight, blendFactor) ELSE 0)
         IN  [s EXCEPT !.targetBlendShapes =
                  IF isCurrentVowel \/ isNextVowel
                  THEN SetAll(withShapes, JawControls(VowelJawNames), blendedJawWeight)
                  ELSE withShapes]

applyPausePhoneme(s, pauseType) ==
    IF pauseType \notin PausePhonemes THEN s
    ELSE [s EXCEPT !.targetBlendShapes = SetAll(@, NonProtected, 0)]

\* interpolateBlendShapes as it would be without Math.min(1, ...)
interpolateBlendShapes_unclamped(s, delta) ==
    LET moved == { n \in DOMAIN s.targetBlendShapes :
                     n \in blendShapeControls /\ ~isProtectedEmotionShape(n) }
        newValue(n) ==
            LET currentValue == MapGet(s.currentBlendShapes, n, 0)
            IN  currentValue + ((s.targetBlendShapes[n] - currentValue) * delta) \div transitionDuration
    IN  [s EXCEPT !.currentBlendShapes =
                      [n \in (DOMAIN @) \cup moved |-> IF n \in moved THEN newValue(n) ELSE @[n]],
                  !.output = [n \in DOMAIN @ |-> IF n \in moved THEN newValue(n) ELSE @[n]]]

\* the tick as it would be if every tick went the whole way (t = 1)
interpolateBlendShapes_snap(s, delta) ==
    LET moved == { n \in DOMAIN s.targetBlendShapes :
                     n \in blendShapeControls /\ ~isProtectedEmotionShape(n) }
    IN  [s EXCEPT !.currentBlendShapes =
                      [n \in (DOMAIN @) \cup moved |->
                          IF n \in moved THEN s.targetBlendShapes[n] ELSE @[n]],
                  !.output = [n \in DOMAIN @ |->
                                 IF n \in moved THEN s.targetBlendShapes[n] ELSE @[n]]]

\* delta in ms; every control of the fixture has a mesh and an index
interpolateBlendShapes(s, delta) ==
    LET moved == { n \in DOMAIN s.targetBlendShapes :
                     n \in blendShapeControls /\ ~isProtectedEmotionShape(n) }
        newValue(n) ==
            LET currentValue == MapGet(s.currentBlendShapes, n, 0)
            IN  currentValue + ((s.targetBlendShapes[n] - currentValue) * Min(delta, transitionDuration))
                                   \div transitionDuration
    IN  [s EXCEPT !.currentBlendShapes =
                      [n \in (DOMAIN @) \cup moved |-> IF n \in moved THEN newValue(n) ELSE @[n]],
                  !.output = [n \in DOMAIN @ |-> IF n \in moved THEN newValue(n) ELSE @[n]]]

\* animate() as it would be without the test of isAnimating
animate_unguarded(s, delta) ==
    [interpolateBlendShapes(s, delta) EXCEPT !.rafPending = @ + 1]

\* one run of animate(): delta is the time since the frame seen last
animate(s, delta) ==
    IF ~s.isAnimating THEN s
    ELSE [interpolateBlendShapes(s, delta) EXCEPT !.rafPending = @ + 1]

preparePhonemes(s, text) ==
    IF text = EmptyText THEN s
    ELSE [s EXCEPT !.preparedPhonemes =
              << Prepared(FallbackPhonemes(text), s.anticipation, s.phonemeSpeedMs) >>]

\* an utterance number no pending timer carries
FreshUtt(s) ==
    LET free == { u \in 1..(Cardinality({ e.utt : e \in s.timers }) + 1) :
                    \A e \in s.timers : e.utt # u }
    IN  CHOOSE u \in free : \A v \in free : u <= v

\* startPreparedAnimation as it would be if it returned lastPhonemeTime alone
startPreparedAnimation_noEndDelay(s, delta, op, text) ==
    IF s.preparedPhonemes = << >> THEN [s EXCEPT !.lastOp = Op(op, "number", 0, text)]
    ELSE LET pp == s.preparedPhonemes[1]
             stopped == IF s.isAnimating THEN stopAnimation(s) ELSE s
             utt == FreshUtt(stopped)
             last == LastPhonemeTime(pp.phonemes, stopped.phonemeSpeedMs)
             scheduled ==
                 [stopped EXCEPT !.isAnimating = TRUE,
                                 !.lastPhonemeTime = last,
                                 !.timers = @ \cup TimelineEvents(pp, stopped.phonemeSpeedMs, utt),
                                 !.currentUtt = utt,
                                 !.preparedPhonemes = << >>]
         IN  [animate(scheduled, delta) EXCEPT !.lastOp = Op(op, "number", last, text)]

\* startPreparedAnimation(); the value returned is left in lastOp (op names
\* the call it ends, text the text of that call)
startPreparedAnimation(s, delta, op, text) ==
    IF s.preparedPhonemes = << >> THEN [s EXCEPT !.lastOp = Op(op, "number", 0, text)]
    ELSE LET pp == s.preparedPhonemes[1]
             stopped == IF s.isAnimating THEN stopAnimation(s) ELSE s
             utt == FreshUtt(stopped)
             last == LastPhonemeTime(pp.phonemes, stopped.phonemeSpeedMs)
             scheduled ==
                 [stopped EXCEPT !.isAnimating = TRUE,
                                 !.lastPhonemeTime = last,
                                 !.timers = @ \cup TimelineEvents(pp, stopped.phonemeSpeedMs, utt),
                                 !.currentUtt = utt,
                                 !.preparedPhonemes = << >>]
         IN  [animate(scheduled, delta) EXCEPT
                  !.lastOp = Op(op, "number", last + endDelayMs * 100, text)]

\* the handle setInterval returns
FreshHandle(s) ==
    CHOOSE h \in 1..(Cardinality(s.liveIntervals) + 1) :
        h \notin s.liveIntervals /\ \A g \in 1..(h - 1) : g \in s.liveIntervals

startAudioPauseMonitoring(s) ==
    LET cleared == [s EXCEPT !.liveIntervals =
                        IF s.pauseUpdateInterval # 0 THEN @ \ {s.pauseUpdateInterval} ELSE @]
        h == FreshHandle(cleared)
    IN  [cleared EXCEPT !.lastAppliedPauseId = << >>,
                        !.currentlyInPause = FALSE,
                        !.pollHist = << >>,
                        !.liveIntervals = @ \cup {h},
                        !.pauseUpdateInterval = h]

\* getPauseAtTime as it would be with the ends of an interval left out
RECURSIVE getPauseAtTime_exclusive(_, _)
getPauseAtTime_exclusive(pauses, time) ==
    IF pauses = << >> THEN << >>
    ELSE IF time > Head(pauses).start /\ time < Head(pauses).end THEN << Head(pauses) >>
    ELSE getPauseAtTime_exclusive(Tail(pauses), time)

\* AudioAnalyzer.getPauseAtTime: << >> for null, else <<the pause>>
RECURSIVE getPauseAtTime(_, _)
getPauseAtTime(pauses, time) ==
    IF pauses = << >> THEN << >>
    ELSE IF time >= Head(pauses).start /\ time <= Head(pauses).end THEN << Head(pauses) >>
    ELSE getPauseAtTime(Tail(pauses), time)

\* start.toFixed(3): seconds with three decimals, i.e. whole milliseconds
toFixed3(t) == (t + 5) \div 10

PauseId(pause) == << toFixed3(pause.start), pause.type >>

\* the test as it would be without the tracking state: every poll applies
ShouldApplyPause_always(s, pauseId) == TRUE

\* the test as it would be if only the entry into a pause applied
ShouldApplyPause_onEntryOnly(s, pauseId) == ~s.currentlyInPause

\* the test that guards the application of a pause in the poll
ShouldApplyPause(s, pauseId) == ~s.currentlyInPause \/ s.lastAppliedPauseId # pauseId

\* pollHist after a poll that found the pause with this id, and after one
\* that found none: <<id>> while the polls stay in one interval, <<id, "left">>
\* once a poll after them found no interval
HistIn(hist, pauseId) == << pauseId >>
HistOut(hist) == IF hist = << >> THEN << >> ELSE << hist[1], "left" >>

\* the poll as it would be if leaving a pause cleared lastAppliedPauseId
pollCallback_clearsOnExit(s, currentTime) ==
    IF s.currentAudio = NULL \/ ~s.isAnimating \/ ~s.usingAudioBasedPauses
    THEN [s EXCEPT !.lastOp = Op("pollIdle", "none", 0, EmptyText)]
    ELSE LET currentPause == getPauseAtTime(s.analyzerPauses, currentTime)
         IN  IF currentPause # << >>
             THEN LET pauseId == PauseId(currentPause[1])
                      hist == HistIn(s.pollHist, pauseId)
                  IN  IF ShouldApplyPause(s, pauseId)
                      THEN [applyPausePhoneme(s, currentPause[1].type) EXCEPT
                               !.lastAppliedPauseId = pauseId,
                               !.currentlyInPause = TRUE,
                               !.pollHist = hist,
                               !.lastOp = Op("pollApply", "none", 0,
                                             IF s.currentlyInPause THEN << "switched" >>
                                             ELSE EmptyText)]
                      ELSE [s EXCEPT !.pollHist = hist,
                                     !.lastOp = Op("pollSkip", "none", 0, EmptyText)]
             ELSE [s EXCEPT !.currentlyInPause = FALSE,
                            !.lastAppliedPauseId = << >>,
                            !.pollHist = HistOut(@),
                            !.lastOp = Op(IF s.currentlyInPause THEN "pollExit" ELSE "pollNone",
                                          "none", 0, EmptyText)]

\* the callback of the setInterval of startAudioPauseMonitoring, reading
\* currentAudio.currentTime = currentTime; lastOp says what the poll did, and
\* "switched" when it applied a pause while the state was in pause
pollCallback(s, currentTime) ==
    IF s.currentAudio = NULL \/ ~s.isAnimating \/ ~s.usingAudioBasedPauses
    THEN [s EXCEPT !.lastOp = Op("pollIdle", "none", 0, EmptyText)]
    ELSE LET currentPause == getPauseAtTime(s.analyzerPauses, currentTime)
         IN  IF currentPause # << >>
             THEN LET pauseId == PauseId(currentPause[1])
                      hist == HistIn(s.pollHist, pauseId)
                  IN  IF ShouldApplyPause(s, pauseId)
                      THEN [applyPausePhoneme(s, currentPause[1].type) EXCEPT
                               !.lastAppliedPauseId = pauseId,
                               !.currentlyInPause = TRUE,
                               !.pollHist = hist,
                               !.lastOp = Op("pollApply", "none", 0,
                                             IF s.currentlyInPause THEN << "switched" >>
                                             ELSE EmptyText)]
                      ELSE [s EXCEPT !.pollHist = hist,
                                     !.lastOp = Op("pollSkip", "none", 0, EmptyText)]
             ELSE [s EXCEPT !.currentlyInPause = FALSE,
                            !.pollHist = HistOut(@),
                            !.lastOp = Op(IF s.currentlyInPause THEN "pollExit" ELSE "pollNone",
                                          "none", 0, EmptyText)]

RemoveAt(seq, i) == [j \in 1..(Len(seq) - 1) |-> IF j < i THEN seq[j] ELSE seq[j + 1]]

\* speak as it would be if it started the timers of the character-based
\* sequence before it awaited the lookup
speakBegin_schedulesEarly(s, text, speed) ==
    IF text = EmptyText THEN [s EXCEPT !.lastOp = Op("speakNoText", "undefined", 0, text)]
    ELSE LET stopped == IF s.isAnimating THEN stopAnimation(s) ELSE s
             begun == [stopped EXCEPT
                          !.phonemeSpeedMs = IF speed \in DOMAIN speechRate THEN speechRate[speed]
                                             ELSE speechRate.normal,
                          !.speakCalls = Append(@, [text |-> text, speed |-> speed,
                                                    res |-> IF text \in DOMAIN s.phoneticCache
                                                            THEN << s.phoneticCache[text] >>
                                                            ELSE << >>])]
         IN  [startPreparedAnimation(preparePhonemes(begun, text), 0, "speakBegin", text) EXCEPT
                 !.lastOp = Op("speakBegin", "none", 0, text)]

\* speak(text, speed) up to "await this.getPhonemes(text)": getPhonemes has
\* looked into the cache (res = <<sequence>> on a hit) or sent the request
\* (res = << >>); a suspended call keeps its text and its speed
speakBegin(s, text, speed) ==
    IF text = EmptyText THEN [s EXCEPT !.lastOp = Op("speakNoText", "undefined", 0, text)]
    ELSE LET stopped == IF s.isAnimating THEN stopAnimation(s) ELSE s
         IN  [stopped EXCEPT
                 !.phonemeSpeedMs = IF speed \in DOMAIN speechRate THEN speechRate[speed]
                                    ELSE speechRate.normal,
                 !.speakCalls = Append(@, [text |-> text, speed |-> speed,
                                           res |-> IF text \in DOMAIN s.phoneticCache
                                                   THEN << s.phoneticCache[text] >> ELSE << >>]),
                 !.lastOp = Op("speakBegin", "none", 0, text)]

\* speakResume as it would be if the catch block prepared nothing
speakResume_noFallback(s, i, requestOk, delta) ==
    LET call == s.speakCalls[i]
        s0 == [s EXCEPT !.speakCalls = RemoveAt(@, i)]
        got == IF call.res # << >>
               THEN [s0 EXCEPT !.preparedPhonemes =
                        << Prepared(call.res[1], s0.anticipation, s0.phonemeSpeedMs) >>]
               ELSE IF requestOk
               THEN [s0 EXCEPT !.phoneticCache = MapSet(@, call.text, RemoteSequence(call.text)),
                               !.preparedPhonemes =
                        << Prepared(RemoteSequence(call.text), s0.anticipation, s0.phonemeSpeedMs) >>]
               ELSE s0
        started == [got EXCEPT !.isAnimating = TRUE, !.lastPhonemeTime = 0]
    IN  startPreparedAnimation(started, delta,
                               IF call.res # << >> THEN "speakCached"
                               ELSE IF requestOk THEN "speakRemote" ELSE "speakFallback",
                               call.text)

\* the rest of speak for the i-th suspended call: requestOk says whether the
\* phonetic service answered with status success (unused on a cache hit)
speakResume(s, i, requestOk, delta) ==
    LET call == s.speakCalls[i]
        s0 == [s EXCEPT !.speakCalls = RemoveAt(@, i)]
        got == IF call.res # << >>
               THEN [s0 EXCEPT !.preparedPhonemes =
                        << Prepared(call.res[1], s0.anticipation, s0.phonemeSpeedMs) >>]
               ELSE IF requestOk
               THEN [s0 EXCEPT !.phoneticCache = MapSet(@, call.text, RemoteSequence(call.text)),
                               !.preparedPhonemes =
                        << Prepared(RemoteSequence(call.text), s0.anticipation, s0.phonemeSpeedMs) >>]
               ELSE preparePhonemes(s0, call.text)
        started == [got EXCEPT !.isAnimating = TRUE, !.lastPhonemeTime = 0]
    IN  startPreparedAnimation(started, delta,
                               IF call.res # << >> THEN "speakCached"
                               ELSE IF requestOk THEN "speakRemote" ELSE "speakFallback",
                               call.text)

\* setAudioSource(audioElement, audioBlob) up to its await, or to its end
\* when there is neither a blob nor a src; a suspended call keeps its element
\* and the data it awaits the analysis of
setAudioSourceBegin(s, audioElement, audioBlob) ==
    LET cleared == [clearAudioSource(s) EXCEPT !.currentAudio = audioElement.id, !.stoppedSince = FALSE]
    IN  IF audioBlob # NULL
        THEN [cleared EXCEPT !.audioCalls = Append(@, [element |-> audioElement.id, data |-> audioBlob,
                                                    viaUrl |-> FALSE]),
                             !.lastOp = Op("setAudioSourceBegin", "none", 0, EmptyText)]
        ELSE IF audioElement.src # NULL
        THEN [cleared EXCEPT !.audioCalls = Append(@, [element |-> audioElement.id, data |-> audioElement.src,
                                                    viaUrl |-> TRUE]),
                             !.lastOp = Op("setAudioSourceBegin", "none", 0, EmptyText)]
        ELSE [cleared EXCEPT !.lastOp = Op("setAudioSourceNoData", "false", 0, EmptyText)]

\* whether analyzeFromBlob / analyzeFromUrl resolves: the URL was fetched,
\* the analyzer has an audio context and the data decodes
AnalysisSucceeds(s, call, fetchOk) ==
    /\ call.viaUrl => fetchOk
    /\ s.audioContext
    /\ Decodes(call.data)

\* setAudioSourceResume as it would be if the catch block stopped the animation
setAudioSourceResume_stops(s, i, fetchOk) ==
    LET call == s.audioCalls[i]
        s0 == [s EXCEPT !.audioCalls = RemoveAt(@, i)]
    IN  IF AnalysisSucceeds(s, call, fetchOk)
        THEN LET analyzed == [s0 EXCEPT !.analyzerPauses = PausesOf(call.data),
                                        !.detectedPauses = PausesOf(call.data),
                                        !.usingAudioBasedPauses = Len(PausesOf(call.data)) > 0]
             IN  IF analyzed.usingAudioBasedPauses
                 THEN [analyzed EXCEPT !.lastOp = Op("setAudioSourceActive", "true", 0, EmptyText)]
                 ELSE [analyzed EXCEPT !.lastOp = Op("setAudioSourceNoPauses", "false", 0, EmptyText)]
        ELSE [stopAnimation(s0) EXCEPT !.lastOp = Op("setAudioSourceFailed", "false", 0, EmptyText)]

\* the rest of setAudioSource for the i-th suspended call
setAudioSourceResume(s, i, fetchOk) ==
    LET call == s.audioCalls[i]
        s0 == [s EXCEPT !.audioCalls = RemoveAt(@, i)]
    IN  IF AnalysisSucceeds(s, call, fetchOk)
        THEN LET analyzed == [s0 EXCEPT !.analyzerPauses = PausesOf(call.data),
                                        !.detectedPauses = PausesOf(call.data),
                                        !.usingAudioBasedPauses = Len(PausesOf(call.data)) > 0]
             IN  IF analyzed.usingAudioBasedPauses
                 THEN [startAudioPauseMonitoring(analyzed) EXCEPT
                          !.lastOp = Op("setAudioSourceActive", "true", 0, EmptyText)]
                 ELSE [analyzed EXCEPT !.lastOp = Op("setAudioSourceNoPauses", "false", 0, EmptyText)]
        ELSE [s0 EXCEPT !.usingAudioBasedPauses = FALSE,
                        !.lastOp = Op("setAudioSourceFailed", "false", 0, EmptyText)]

\* values a caller can put into a settings object: a boolean, a number in
\* hundredths, NaN (a number to typeof), a string
JsBoolean(b) == [type |-> "boolean", bool |-> b, num |-> 0, nan |-> FALSE]
JsNumber(n) == [type |-> "number", bool |-> FALSE, num |-> n, nan |-> FALSE]
JsNaN == [type |-> "number", bool |-> FALSE, num |-> 0, nan |-> TRUE]
JsString == [type |-> "string", bool |-> FALSE, num |-> 0, nan |-> FALSE]

\* typeof settings.field; "undefined" for a field the object lacks
typeof(settings, field) == IF field \in DOMAIN settings THEN settings[field].type ELSE "undefined"

\* NaN as a stored setting: below every number of the range, so that no
\* comparison with the range succeeds
NaN == 0 - 1

\* Math.max(0, Math.min(1, v)): both return NaN when an argument is NaN
Clamp01(v) == IF v.nan THEN NaN ELSE Max(0, Min(100, v.num))

\* setAnticipation(settings): a field is taken when typeof says it is of the
\* type expected and is left as it is otherwise
setAnticipation(s, settings) ==
    [s EXCEPT !.anticipation =
        [enabled |-> IF typeof(settings, "enabled") = "boolean"
                     THEN settings.enabled.bool ELSE @.enabled,
         factor |-> IF typeof(settings, "factor") = "number"
                    THEN Clamp01(settings.factor) ELSE @.factor,
         offsetFactor |-> IF typeof(settings, "offsetFactor") = "number"
                          THEN Clamp01(settings.offsetFactor) ELSE @.offsetFactor],
              !.lastOp = Op("setAnticipation", "none", 0, EmptyText)]

\* the callback of one timeline timer
timerCallback(s, e) ==
    LET fired == [s EXCEPT !.timers = @ \ {e}, !.lastOp = Op("fire", "none", 0, EmptyText)]
    IN  IF e.kind = "Apply" THEN applyPhoneme(fired, e.ph)
        ELSE applyAnticipatedPhoneme(fired, e.ph, e.next, e.factor)

\* the callback requestAnimationFrame(() => this.animate()) registered
frameCallback(s, delta) ==
    animate([s EXCEPT !.rafPending = @ - 1, !.lastOp = Op("frame", "none", 0, EmptyText)], delta)

\* -------------------------------------------------------------------- actions
\* settings the caller passes to setAnticipation
AnticipationSettings == { [enabled |-> JsBoolean(TRUE)], [enabled |-> JsBoolean(FALSE)] }

\* settings with numbers (in hundredths) inside, at the ends of and outside
\* the permitted range
FactorInputs == {-50, 35, 150}
OffsetFactorInputs == {-50, 80, 150}

\* numbers passed as factor or offsetFactor, in hundredths
NumberInputs == {-50, 0, 10, 20, 35, 50, 60, 80, 100, 150}

\* values of every kind for a field of the settings object
JsValues == { JsBoolean(TRUE), JsBoolean(FALSE), JsString, JsNaN } \cup { JsNumber(n) : n \in NumberInputs }

\* settings objects: empty, with one field, with both factors
TypedSettings ==
    { EmptyMap }
    \cup { [enabled |-> v] : v \in JsValues }
    \cup { [factor |-> v] : v \in JsValues }
    \cup { [offsetFactor |-> v] : v \in JsValues }
    \cup { [factor |-> v, offsetFactor |-> w] : v \in JsValues, w \in JsValues }

\* phonemes applied one by one: two vowels, a consonant no control of the
\* character answers to, a pause
PosePhonemes == {"AAA", "AHH", "MBP", "PAUSE_MED"}

\* pause types handed to applyPausePhoneme, and a symbol that is none
PauseTypeInputs == PausePhonemes \cup {"AAA"}

\* elapsed time between two frames, in ms: none, part of the transition, the
\* whole of it, more than it
PoseDeltas == {0, 60, 105, 200}

\* a continuation of a call that awaited an already resolved promise runs
\* before any timer, frame or network callback
MicrotaskPending == \E i \in DOMAIN speakCalls : speakCalls[i].res # << >>

PendingUtterances == { e.utt : e \in timers }

\* the callers start no more utterances and frame loops than the bounds allow
MayStartUtterance ==
    /\ Len(speakCalls) + Cardinality(PendingUtterances) < MaxUtterances
    /\ Len(speakCalls) + rafPending < MaxFrameLoops

\* the timer of its utterance that is due first
DueFirst(e) ==
    \A f \in timers : f.utt = e.utt =>
        \/ e.offset < f.offset
        \/ (e.offset = f.offset /\ e.seq <= f.seq)

Speak ==
    \E text \in Texts, speed \in Speeds :
        /\ text # EmptyText => MayStartUtterance
        /\ Becomes(speakBegin(This, text, speed))

\* speak called by a host that lets an utterance end before the next one
SpeakInTurn ==
    \E text \in Texts :
        /\ text # EmptyText => (speakCalls = << >> /\ timers = {} /\ rafPending < MaxFrameLoops)
        /\ Becomes(speakBegin(This, text, "normal"))

SpeakResume ==
    \E i \in DOMAIN speakCalls, requestOk \in BOOLEAN, delta \in FrameDeltas :
        /\ IF speakCalls[i].res # << >>
           THEN requestOk /\ \A j \in 1..(i - 1) : speakCalls[j].res = << >>
           ELSE ~MicrotaskPending
        /\ Becomes(speakResume(This, i, requestOk, delta))

\* speak called in turn with the texts and speeds of the schedules examined
SpeakScheduled ==
    \E text \in ScheduleTexts, speed \in ScheduleSpeeds :
        /\ speakCalls = << >> /\ timers = {} /\ rafPending < MaxFrameLoops
        /\ Becomes(speakBegin(This, text, speed))

PreparePhonemes ==
    \E text \in Texts :
        Becomes([preparePhonemes(This, text) EXCEPT
                    !.lastOp = Op("preparePhonemes", "none", 0, text)])

StartPreparedAnimation ==
    \E delta \in FrameDeltas :
        /\ speakCalls = << >> /\ timers = {} /\ rafPending < MaxFrameLoops
        /\ Becomes(startPreparedAnimation(This, delta, "startPreparedAnimation", EmptyText))

StopAnimation ==
    Becomes([stopAnimation(This) EXCEPT !.lastOp = Op("stopAnimation", "none", 0, EmptyText)])

ClearAudioSource ==
    Becomes([clearAudioSource(This) EXCEPT !.lastOp = Op("clearAudioSource", "none", 0, EmptyText)])

SetAnticipation ==
    \E settings \in AnticipationSettings : Becomes(setAnticipation(This, settings))

SetAnticipationFactor ==
    \E f \in FactorInputs : Becomes(setAnticipation(This, [factor |-> JsNumber(f)]))

\* analyzeAudio(buffer) with a decoded buffer; the step keeps the buffer. An
\* analysis replaces the stored intervals whole and a query changes nothing,
\* so a behaviour has one analysis and one query after it.
AnalyzeAudio ==
    \E buffer \in Buffers :
        /\ audioContext
        /\ lastOp.op = "constructor"
        /\ Becomes([This EXCEPT !.analyzerPauses = detectPauses(buffer),
                                !.lastOp = Op("analyzeAudio", "pauses", 0, <<buffer>>)])

\* getPauseAtTime(time); the step keeps the time and what was returned
GetPauseAtTime ==
    \E time \in QueryTimes :
        /\ lastOp.op = "analyzeAudio"
        /\ Becomes([This EXCEPT !.lastOp =
                       Op("getPauseAtTime", "pause", 0,
                          << [time |-> time, pause |-> getPauseAtTime(analyzerPauses, time)] >>)])

\* the head of detectPauses for a buffer of so many samples at a sample
\* rate: the step keeps the window size and the number of windows of the loop
PartitionWindows ==
    \E sampleRate \in SampleRates, length \in SampleCounts :
        /\ lastOp.op \in {"constructor", "windows"}
        /\ Becomes([This EXCEPT !.lastOp =
                       Op("windows", "none", 0,
                          << [sampleRate |-> sampleRate, length |-> length,
                              windowSize |-> windowSize(sampleRate),
                              windows |-> LoopWindows(length, windowSize(sampleRate))] >>)])

\* setAnticipation with any settings object; the step keeps the object
SetAnticipationTyped ==
    \E settings \in TypedSettings :
        Becomes([setAnticipation(This, settings) EXCEPT
                    !.lastOp = Op("setAnticipation", "none", 0, <<settings>>)])

\* the methods that write the pose, called one at a time
ApplyPhoneme ==
    \E ph \in PosePhonemes :
        /\ poseSteps < MaxPoseSteps
        /\ Becomes([applyPhoneme(This, ph) EXCEPT
                       !.poseSteps = @ + 1,
                       !.lastOp = Op("applyPhoneme", "none", 0, <<ph>>)])

ApplyAnticipatedPhoneme ==
    \E currentPhoneme \in PosePhonemes, nextPhoneme \in PosePhonemes :
        /\ poseSteps < MaxPoseSteps
        /\ Becomes([applyAnticipatedPhoneme(This, currentPhoneme, nextPhoneme, anticipation.factor)
                       EXCEPT !.poseSteps = @ + 1,
                              !.lastOp = Op("applyAnticipatedPhoneme", "none", 0,
                                            <<currentPhoneme, nextPhoneme>>)])

ApplyPausePhoneme ==
    \E pauseType \in PauseTypeInputs :
        /\ poseSteps < MaxPoseSteps
        /\ Becomes([applyPausePhoneme(This, pauseType) EXCEPT
                       !.poseSteps = @ + 1,
                       !.lastOp = Op("applyPausePhoneme", "none", 0, <<pauseType>>)])

InterpolateBlendShapes ==
    \E delta \in PoseDeltas :
        /\ poseSteps < MaxPoseSteps
        /\ Becomes([interpolateBlendShapes(This, delta) EXCEPT
                       !.poseSteps = @ + 1,
                       !.lastOp = Op("interpolateBlendShapes", "none", 0, << delta >>)])

SetAudioSource ==
    \E audioElement \in AudioElements, audioBlob \in AudioData \cup {NULL} :
        /\ Len(audioCalls) < MaxAudioCalls
        /\ Becomes(setAudioSourceBegin(This, audioElement, audioBlob))

SetAudioSourceResume ==
    \E i \in DOMAIN audioCalls, fetchOk \in BOOLEAN :
        /\ ~MicrotaskPending
        /\ audioCalls[i].viaUrl \/ fetchOk
        /\ Becomes(setAudioSourceResume(This, i, fetchOk))

FireTimer ==
    \E e \in timers :
        /\ ~MicrotaskPending
        /\ DueFirst(e)
        /\ Becomes(timerCallback(This, e))

Poll ==
    \E h \in liveIntervals, currentTime \in ClockReadings :
        /\ ~MicrotaskPending
        /\ Becomes(pollCallback(This, currentTime))

Frame ==
    \E delta \in FrameDeltas :
        /\ ~MicrotaskPending
        /\ rafPending > 0
        /\ Becomes(frameCallback(This, delta))

\* the timeline: overlapping utterances, anticipation, timers and frames
Next ==
    \/ Speak
    \/ SpeakResume
    \/ StopAnimation
    \/ SetAnticipation
    \/ FireTimer
    \/ Frame

Spec == Init /\ [][Next]_vars

\* the synchronizer: audio sources, analysis, polls, with utterances in turn
NextSync ==
    \/ SpeakInTurn
    \/ SpeakResume
    \/ StopAnimation
    \/ ClearAudioSource
    \/ SetAudioSource
    \/ SetAudioSourceResume
    \/ FireTimer
    \/ Poll
    \/ Frame

SpecSync == InitSync /\ [][NextSync]_vars

\* the pose: phonemes, anticipated phonemes, live pauses and frames in any
\* order, with any stored anticipation factor
NextPose ==
    \/ ApplyPhoneme
    \/ ApplyAnticipatedPhoneme
    \/ ApplyPausePhoneme
    \/ InterpolateBlendShapes
    \/ SetAnticipationFactor
    \/ StopAnimation

SpecPose == Init /\ [][NextPose]_vars

\* the analyzer: analyses of buffers and queries of the intervals stored
NextDetect ==
    \/ AnalyzeAudio
    \/ GetPauseAtTime

SpecDetect == Init /\ [][NextDetect]_vars

\* one utterance left alone: the anticipation is set or left as it is,
\* speak is called once, and after it only the host runs, which delivers
\* every response, timer and frame callback
BeforeSpeak == lastOp.op \in {"constructor", "setAnticipation"}

SpeakOnce == BeforeSpeak /\ Speak

ConfigureOnce ==
    /\ lastOp.op = "constructor"
    /\ \/ SetAnticipation
       \/ SetAnticipationFactor

NextUtterance ==
    \/ ConfigureOnce
    \/ SpeakOnce
    \/ SpeakResume
    \/ FireTimer
    \/ Frame

\* weak fairness of the host for the three kinds of callback: a response, a
\* timer or a frame callback that stays due is delivered. For the rest of a
\* speak call ENABLED is written out: it can run when a call is suspended.
ResumeEnabled == speakCalls # << >>

HostFairness ==
    /\ []<>(~ResumeEnabled) \/ []<><<SpeakResume>>_vars
    /\ WF_vars(FireTimer)
    /\ WF_vars(Frame)

SpecUtterance == Init /\ [][NextUtterance]_vars /\ HostFairness

\* the windower: the partition of buffers of any rate and length
NextWindow == PartitionWindows

SpecWindow == Init /\ [][NextWindow]_vars

\* the configuration: setAnticipation calls one after the other
NextConfig == SetAnticipationTyped

SpecConfig == Init /\ [][NextConfig]_vars

\* the anticipation settings setAnticipation can leave: what the constructor
\* set, overwritten field by field with clamped numbers
StoredAnticipation ==
    { [enabled |-> e, factor |-> f, offsetFactor |-> o] :
        e \in BOOLEAN,
        f \in {DefaultAnticipation.factor} \cup { Max(0, Min(100, x)) : x \in FactorInputs },
        o \in {DefaultAnticipation.offsetFactor} \cup { Max(0, Min(100, x)) : x \in OffsetFactorInputs } }

\* the constructed controller after the host has configured anticipation
InitSchedule ==
    \E ant \in StoredAnticipation :
        /\ anticipation = ant
        /\ isAnimating = FALSE
        /\ phonemeSpeedMs = 135
        /\ preparedPhonemes = << >>
        /\ lastPhonemeTime = 0
        /\ targetBlendShapes = [n \in NonProtected |-> 0]
        /\ currentBlendShapes = [n \in NonProtected |-> 0]
        /\ output = [n \in blendShapeControls |-> IF n \in NonProtected THEN 0 ELSE EmotionWeight]
        /\ phoneticCache = EmptyMap
        /\ usingAudioBasedPauses = FALSE
        /\ currentAudio = NULL
        /\ pauseUpdateInterval = 0
        /\ detectedPauses = << >>
        /\ lastAppliedPauseId = << >>
        /\ currentlyInPause = FALSE
        /\ audioContext = TRUE
        /\ analyzerPauses = << >>
        /\ timers = {}
        /\ liveIntervals = {}
        /\ rafPending = 0
        /\ speakCalls = << >>
        /\ audioCalls = << >>
        /\ currentUtt = 0
        /\ pollHist = << >>
        /\ stoppedSince = FALSE
    /\ poseSteps = 0
        /\ lastOp = Op("setAnticipation", "none", 0, EmptyText)

\* the scheduler: utterances in turn, through speak and through
\* preparePhonemes / startPreparedAnimation, from every anticipation setting
NextSchedule ==
    \/ SpeakScheduled
    \/ SpeakResume
    \/ PreparePhonemes
    \/ StartPreparedAnimation
    \/ FireTimer

SpecSchedule == InitSchedule /\ [][NextSchedule]_vars

\* ----------------------------------------------------------------- properties
PollFound == {"pollApply", "pollSkip"}
AudioResolved == {"setAudioSourceNoData", "setAudioSourceActive", "setAudioSourceNoPauses",
                  "setAudioSourceFailed"}

\* C1: at most one timeline is active: a timer of an utterance other than
\* the one scheduled last never fires and changes the pose targets.
C1_OneActiveTimeline ==
    [][\A e \in timers :
          (e \notin timers' /\ e.utt # currentUtt) => targetBlendShapes' = targetBlendShapes]_vars

\* C2: stopAnimation clears the pending timeline timers: while the animation
\* is stopped (from a stopAnimation to the start of the next timeline) no
\* timeline timer fires and changes the pose targets.
C2_StopCancelsTimers ==
    [][\A e \in timers :
          (e \notin timers' /\ ~isAnimating) => targetBlendShapes' = targetBlendShapes]_vars

\* C3: hysteresis within one interval: of consecutive polls that find the same
\* pause interval the first applies the pause pose, and every later one
\* applies nothing and writes no pose target.
C3_HysteresisWithinInterval ==
    [][lastOp'.op \in PollFound =>
          IF pollHist' = pollHist
          THEN lastOp'.op = "pollSkip" /\ targetBlendShapes' = targetBlendShapes
          ELSE lastOp'.op = "pollApply"]_vars

\* a second poll in one interval was reached, and it applied nothing
C3_Witness == lastOp.op = "pollSkip" /\ Len(pollHist) = 1 /\ currentlyInPause

\* C4: leaving a pause interval and entering the same interval again does not
\* apply the pause a second time.
C4_NoReapplyOnReentry ==
    [][(lastOp'.op \in PollFound /\ Len(pollHist) = 2 /\ pollHist' = << pollHist[1] >>)
          => lastOp'.op = "pollSkip"]_vars

\* C5: after stopAnimation and until the next setAudioSource call begins no
\* poll timer is held.
C5_TimerReleasedAfterStop ==
    stoppedSince => (pauseUpdateInterval = 0 /\ liveIntervals = {})

\* C6: setAudioSource resets the pause tracking: right after it begins the
\* tracking state is null / not in pause and no poll timer is left, and right
\* after monitoring starts the tracking state is reset again and the only
\* poll timer is the new one.
C6_AttachResetsTracking ==
    /\ lastOp.op \in {"setAudioSourceBegin", "setAudioSourceNoData"} =>
          /\ lastAppliedPauseId = << >> /\ ~currentlyInPause
          /\ pauseUpdateInterval = 0 /\ liveIntervals = {}
    /\ lastOp.op = "setAudioSourceActive" =>
          /\ lastAppliedPauseId = << >> /\ ~currentlyInPause
          /\ pauseUpdateInterval # 0 /\ liveIntervals = {pauseUpdateInterval}

\* monitoring was started by a call that overlapped another one
C6_Witness == lastOp.op = "setAudioSourceActive" /\ Len(audioCalls) = 1 /\ isAnimating

\* C7: stopAnimation is idempotent: from every reachable state a second call
\* changes nothing of what the first one left, which is: not animating, no
\* poll timer, tracking state reset, every non-protected output weight 0.
C7_StopIdempotent ==
    LET once == stopAnimation(This)
    IN  /\ stopAnimation(once) = once
        /\ ~once.isAnimating
        /\ once.pauseUpdateInterval = 0 /\ once.liveIntervals = {}
        /\ once.lastAppliedPauseId = << >> /\ ~once.currentlyInPause
        /\ \A n \in NonProtected : once.output[n] = 0

\* stopAnimation has just run on a state with timers pending and an analysis
\* awaited
C7_Witness == lastOp.op = "stopAnimation" /\ timers # {} /\ Len(audioCalls) > 0

\* C8: setAudioSource resolves to true exactly when pause-based sync became
\* active (pauses found and the poll timer started), and when it resolves to
\* false no poll timer is running.
C8_TrueIffSyncActive ==
    lastOp.op \in AudioResolved =>
        /\ lastOp.ret = "true" <=>
              (usingAudioBasedPauses /\ Len(detectedPauses) > 0 /\ pauseUpdateInterval # 0)
        /\ lastOp.ret = "false" => (pauseUpdateInterval = 0 /\ liveIntervals = {})

\* C9: a failed analysis is not propagated and does not stop speech: the call
\* resolves to false with usingAudioBasedPauses false, and no step of
\* setAudioSource that ends without sync changes isAnimating or the timers.
C9_AnalysisFailureDegrades ==
    [][/\ lastOp'.op = "setAudioSourceFailed" =>
             (lastOp'.ret = "false" /\ ~usingAudioBasedPauses')
       /\ lastOp'.op \in {"setAudioSourceBegin", "setAudioSourceNoData", "setAudioSourceFailed"} =>
             (isAnimating' = isAnimating /\ timers' = timers)]_vars

\* an analysis failed while an utterance was animating with timers pending
C9_Witness == lastOp.op = "setAudioSourceFailed" /\ isAnimating /\ timers # {}

\* C10: after a failed phoneme lookup speak has scheduled the timeline of the
\* character-based sequence of its text, isAnimating is true and the value
\* returned is the duration of that timeline.
C10_LookupFailureFallsBack ==
    lastOp.op = "speakFallback" =>
        LET phonemes == FallbackPhonemes(lastOp.text)
        IN  /\ Len(phonemes) > 0
            /\ isAnimating
            /\ { e \in timers : e.utt = currentUtt } =
                  TimelineEvents(Prepared(phonemes, anticipation, phonemeSpeedMs),
                                 phonemeSpeedMs, currentUtt)
            /\ lastOp.ret = "number"
            /\ lastOp.dur = LastPhonemeTime(phonemes, phonemeSpeedMs) + endDelayMs * 100

\* a lookup failed while the timers of an earlier utterance were pending
C10_Witness ==
    /\ lastOp.op = "speakFallback"
    /\ \E e \in timers : e.utt # currentUtt
    /\ \E e \in timers : e.utt = currentUtt /\ e.kind = "Anticipate"

\* ---- the scheduler (SpecSchedule)
\* a step that ran startPreparedAnimation with phonemes prepared, and the
\* sequence it was given: the service's answer, the character-based sequence
\* of the text, or what preparePhonemes had stored
SchedulingStep ==
    \/ lastOp'.op \in {"speakRemote", "speakCached", "speakFallback"}
    \/ lastOp'.op = "startPreparedAnimation" /\ preparedPhonemes # << >>

StepPhonemes ==
    IF lastOp'.op = "startPreparedAnimation" THEN preparedPhonemes[1].phonemes
    ELSE IF lastOp'.op = "speakFallback" THEN FallbackPhonemes(lastOp'.text)
    ELSE RemoteSequence(lastOp'.text)

StepTimers == timers' \ timers

\* the spec's example: the service answers [AAA, PAUSE_MED, SSS], speed 135
ExampleStep ==
    lastOp'.op = "speakRemote" /\ lastOp'.text = <<"a", "s">> /\ phonemeSpeedMs' = 135

\* speedMs * multiplier summed over the first n phonemes, in hundredths of a ms
RECURSIVE SumDurations(_, _, _)
SumDurations(p, speedMs, n) ==
    IF n = 0 THEN 0 ELSE SumDurations(p, speedMs, n - 1) + speedMs * phonemeDurations(p[n])

ApplyOffset(p, speedMs, i) == phonemeOffsetMs * 100 + SumDurations(p, speedMs, i - 1)

\* C11: the Apply event of phoneme i is scheduled at phonemeOffsetMs plus the
\* sum over the phonemes before it of speedMs * multiplier, one Apply event
\* per phoneme; [AAA, PAUSE_MED, SSS] at 135 ms gives 50, 225.5 and 630.5 ms.
C11_ApplyOffsets ==
    [][SchedulingStep =>
          LET p == StepPhonemes
              applies == { e \in StepTimers : e.kind = "Apply" }
          IN  /\ Cardinality(applies) = Len(p)
              /\ \A i \in 1..Len(p) :
                    \E e \in applies : /\ e.seq = 2 * i - 1 /\ e.ph = p[i]
                                       /\ e.offset = ApplyOffset(p, phonemeSpeedMs', i)
              /\ ExampleStep => { e.offset : e \in applies } = {5000, 22550, 63050}]_vars

\* the example was scheduled: Apply(SSS) is pending at 630.5 ms
C11_Witness ==
    /\ lastOp.op = "speakRemote" /\ lastOp.text = <<"a", "s">> /\ phonemeSpeedMs = 135
    /\ \E e \in timers : e.kind = "Apply" /\ e.ph = "SSS" /\ e.offset = 63050

\* C12: for a non-empty sequence the duration returned is phonemeOffsetMs
\* plus the sum over all phonemes of speedMs * multiplier plus endDelayMs;
\* 1302 ms for the example.
C12_ReturnedDuration ==
    [][(SchedulingStep /\ Len(StepPhonemes) > 0) =>
          LET p == StepPhonemes
          IN  /\ lastOp'.ret = "number"
              /\ lastOp'.dur = phonemeOffsetMs * 100 + SumDurations(p, phonemeSpeedMs', Len(p))
                                 + endDelayMs * 100
              /\ ExampleStep => lastOp'.dur = 130200]_vars

\* the example returned 1302 ms
C12_Witness == lastOp.op = "speakRemote" /\ lastOp.text = <<"a", "s">> /\ lastOp.dur = 130200

\* C13 as stated: the duration returned is the offset of the last scheduled
\* event plus endDelayMs.
C13_LastEventPlusEndDelay ==
    [][(SchedulingStep /\ StepTimers # {}) =>
          \E last \in StepTimers :
              /\ \A e \in StepTimers : e.offset <= last.offset
              /\ lastOp'.dur = last.offset + endDelayMs * 100]_vars

\* C13, amended: the duration returned is the offset of the last Apply event
\* plus speedMs * multiplier of its phoneme (the running offset after the
\* last phoneme) plus endDelayMs.
C13_FinalOffsetPlusEndDelay ==
    [][(SchedulingStep /\ StepTimers # {}) =>
          \E last \in StepTimers :
              /\ last.kind = "Apply"
              /\ \A e \in StepTimers : e.seq <= last.seq
              /\ lastOp'.dur = last.offset + phonemeSpeedMs' * phonemeDurations(last.ph)
                                 + endDelayMs * 100]_vars

\* a prepared sequence was started with anticipation events among its timers
C13_Witness ==
    /\ lastOp.op = "startPreparedAnimation" /\ lastOp.dur > endDelayMs * 100
    /\ \E e \in timers : e.kind = "Anticipate"

\* C14: scheduling an empty phoneme sequence starts no timer and returns
\* exactly endDelayMs.
C14_EmptySequence ==
    [][(SchedulingStep /\ StepPhonemes = << >>) =>
          /\ timers' = timers
          /\ lastOp'.ret = "number"
          /\ lastOp'.dur = endDelayMs * 100]_vars

\* the service answered with an empty sequence and speak returned 550 ms
C14_Witness ==
    /\ lastOp.op \in {"speakRemote", "speakCached"} /\ lastOp.text = <<"s">>
    /\ lastOp.dur = 55000 /\ timers = {} /\ isAnimating

\* C15: with anticipation enabled a sequence of n phonemes yields n-1
\* Anticipate events, the one of phoneme i at its Apply offset plus
\* speedMs * offsetFactor with phoneme i, phoneme i+1 and the factor; with
\* anticipation disabled it yields none.
C15_AnticipateEvents ==
    [][SchedulingStep =>
          LET p == StepPhonemes
              anticipates == { e \in StepTimers : e.kind = "Anticipate" }
          IN  IF anticipation.enabled
              THEN /\ Cardinality(anticipates) = Max(Len(p) - 1, 0)
                   /\ \A i \in 1..(Len(p) - 1) :
                         \E e \in anticipates :
                             /\ e.seq = 2 * i /\ e.ph = p[i] /\ e.next = p[i + 1]
                             /\ e.factor = anticipation.factor
                             /\ e.offset = ApplyOffset(p, phonemeSpeedMs', i)
                                             + phonemeSpeedMs' * anticipation.offsetFactor
              ELSE anticipates = {}]_vars

\* three phonemes were scheduled with anticipation: two Anticipate events
C15_Witness ==
    /\ lastOp.op = "speakRemote" /\ anticipation.enabled
    /\ Cardinality({ e \in timers : e.kind = "Anticipate" }) = 2

\* C16: the events of one utterance are scheduled at strictly increasing
\* offsets in emission order, Apply(i) < Anticipate(i, i+1) < Apply(i+1).
C16_StrictlyIncreasingOffsets ==
    [][SchedulingStep =>
          \A a, b \in StepTimers : a.seq < b.seq => a.offset < b.offset]_vars

\* ---- the pose (SpecPose, SpecSync)
\* C17: no protected channel is a key of the target or the current map, and
\* the output weight of a protected channel stays what the emotion
\* controller set, whatever is applied, anticipated, interpolated or stopped.
C17_ProtectedNeverWritten ==
    \A n \in ProtectedChannels :
        /\ n \notin DOMAIN targetBlendShapes
        /\ n \notin DOMAIN currentBlendShapes
        /\ output[n] = EmotionWeight

\* a frame has written a mapped weight to a channel next to the protected ones
C17_Witness ==
    /\ lastOp.op = "interpolateBlendShapes"
    /\ \E n \in DOMAIN output : output[n] = MappedWeight

PauseApplied ==
    \/ /\ lastOp'.op = "fire"
       /\ \E e \in timers \ timers' : e.kind = "Apply" /\ e.ph \in PausePhonemes
    \/ lastOp'.op = "pollApply"

VowelSymbols == {"AAA", "EH", "AHH", "IEE", "OHH", "UUU"}
JawOpenChannels ==
    { n \in blendShapeControls \ ProtectedChannels : n[2] \in {"mouth_open_M", "MouthOpen"} }

\* C20: after Apply of an articulated phoneme every non-protected channel
\* has the resolved weight if the phoneme resolves to it and 0 otherwise,
\* except that after a vowel every jaw-open channel has 0.5.
C20_ArticulatedApply ==
    [][(lastOp'.op = "applyPhoneme" /\ lastOp'.text[1] \notin PausePhonemes) =>
          LET ph == lastOp'.text[1]
              jaw == IF ph \in VowelSymbols THEN JawOpenChannels ELSE {}
          IN  \A n \in blendShapeControls \ ProtectedChannels :
                  /\ n \in DOMAIN targetBlendShapes'
                  /\ targetBlendShapes'[n] =
                        IF n \in jaw THEN JawVowelWeight
                        ELSE IF n \in MappedShapes(ph) THEN MappedWeight
                        ELSE 0]_vars

\* ---- anticipation (SpecPose)
\* a step that ran applyAnticipatedPhoneme, and its arguments
AnticipateStep == lastOp'.op = "applyAnticipatedPhoneme"
StepCurrent == lastOp'.text[1]
StepNext == lastOp'.text[2]

\* C21: Anticipate with a pause symbol as next phoneme multiplies the target
\* of every non-protected channel by 1 - factor (a channel without a target
\* counts as 0), whatever the current phoneme is, and changes nothing else.
C21_AnticipatePauseScales ==
    [][(AnticipateStep /\ StepNext \in PausePhonemes) =>
          /\ DOMAIN targetBlendShapes' = (DOMAIN targetBlendShapes) \cup (blendShapeControls \ ProtectedChannels)
          /\ \A n \in blendShapeControls \ ProtectedChannels :
                targetBlendShapes'[n] =
                    ((IF n \in DOMAIN targetBlendShapes THEN targetBlendShapes[n] ELSE 0)
                        * (100 - anticipation.factor)) \div 100
          /\ currentBlendShapes' = currentBlendShapes
          /\ output' = output]_vars

\* an open vowel was faded by 1 - 0.35 on the way into a pause
C21_Witness ==
    /\ lastOp.op = "applyAnticipatedPhoneme" /\ lastOp.text[2] \in PausePhonemes
    /\ anticipation.factor = 35
    /\ \E n \in DOMAIN targetBlendShapes : targetBlendShapes[n] = (MappedWeight * 65) \div 100

\* C22: Anticipate with a pause symbol as current phoneme and a phoneme that
\* is no pause as next leaves the target map, the current map and the
\* outputs as they are.
C22_AnticipateFromPauseNoOp ==
    [][(AnticipateStep /\ StepCurrent \in PausePhonemes /\ StepNext \notin PausePhonemes) =>
          /\ targetBlendShapes' = targetBlendShapes
          /\ currentBlendShapes' = currentBlendShapes
          /\ output' = output]_vars

\* anticipation out of a pause ran with a factor above 0 while a channel had
\* a target
C22_Witness ==
    /\ lastOp.op = "applyAnticipatedPhoneme"
    /\ lastOp.text = <<"PAUSE_MED", "AAA">>
    /\ anticipation.factor > 0
    /\ \E n \in DOMAIN targetBlendShapes : targetBlendShapes[n] = MappedWeight

\* C23: Anticipate between two phonemes that are no pauses sets every channel
\* resolved for either to resolve(current) * (1 - factor) + resolve(next) *
\* factor, and every jaw-open channel to 0.5 * (1 - factor) if the current is
\* a vowel plus 0.5 * factor if the next is, also when neither is.
C23_AnticipateBlends ==
    [][(AnticipateStep /\ StepCurrent \notin PausePhonemes /\ StepNext \notin PausePhonemes) =>
          LET f == anticipation.factor
              cur == MappedShapes(StepCurrent)
              nxt == MappedShapes(StepNext)
          IN  /\ \A n \in (cur \cup nxt) \ JawOpenChannels :
                    targetBlendShapes'[n] =
                          (IF n \in cur THEN (MappedWeight * (100 - f)) \div 100 ELSE 0)
                        + (IF n \in nxt THEN (MappedWeight * f) \div 100 ELSE 0)
              /\ \A n \in JawOpenChannels :
                    /\ n \in DOMAIN targetBlendShapes'
                    /\ targetBlendShapes'[n] =
                          (IF StepCurrent \in VowelSymbols
                           THEN (JawVowelWeight * (100 - f)) \div 100 ELSE 0)
                        + (IF StepNext \in VowelSymbols
                           THEN (JawVowelWeight * f) \div 100 ELSE 0)]_vars

\* ---- the configuration (SpecConfig)
\* the settings object of the setAnticipation call of a step
StepSettings == lastOp'.text[1]

InUnitInterval(x) == x >= 0 /\ x <= 100

\* C24: after a setAnticipation call factor and offsetFactor are in [0, 1],
\* and a field that is absent or of the wrong type leaves its setting as it
\* was.
C24_ClampedOrUnchanged ==
    [][lastOp'.op = "setAnticipation" =>
          /\ InUnitInterval(anticipation'.factor)
          /\ InUnitInterval(anticipation'.offsetFactor)
          /\ typeof(StepSettings, "enabled") # "boolean" => anticipation'.enabled = anticipation.enabled
          /\ typeof(StepSettings, "factor") # "number" => anticipation'.factor = anticipation.factor
          /\ typeof(StepSettings, "offsetFactor") # "number" =>
                anticipation'.offsetFactor = anticipation.offsetFactor]_vars

\* ---- the analyzer (SpecDetect)
\* the amplitude of each window of a buffer, windows counted from 1
WindowRms(buffer) ==
    LET runs == buffer.runs
    IN  [i \in 1..WindowsBefore(runs, Len(runs) + 1) |->
            runs[CHOOSE k \in DOMAIN runs :
                    WindowsBefore(runs, k) < i /\ i <= WindowsBefore(runs, k + 1)].rms]

\* the maximal runs of silent windows of a buffer, as <<first, last>>
MaximalRuns(buffer) ==
    LET rms == WindowRms(buffer)
        n == Len(rms)
        Silent(i) == rms[i] < silenceThreshold
        firsts == { a \in 1..n : Silent(a) /\ (a = 1 \/ ~Silent(a - 1)) }
        lasts == { b \in 1..n : Silent(b) /\ (b = n \/ ~Silent(b + 1)) }
    IN  { r \in firsts \X lasts :
            r[1] <= r[2] /\ \A b \in lasts : (r[1] <= b) => (r[2] <= b) }

\* the windows of a buffer
WindowCount(buffer) == WindowsBefore(buffer.runs, Len(buffer.runs) + 1)

\* the time a run spans: from the start of its first window to the start of
\* the window after its last, or to the end of the buffer
RunSpan(buffer, r) ==
    << (r[1] - 1) * windowTime,
       IF r[2] = WindowCount(buffer) THEN buffer.length ELSE r[2] * windowTime >>

\* C25: the intervals of an analysis are the spans of the maximal runs of
\* silent windows that last at least minPauseDuration, one interval for
\* each, and nothing else.
C25_OneIntervalPerLongRun ==
    [][lastOp'.op = "analyzeAudio" =>
          LET buffer == lastOp'.text[1]
              long == { r \in MaximalRuns(buffer) :
                          RunSpan(buffer, r)[2] - RunSpan(buffer, r)[1] >= minPauseDuration * 10 }
          IN  /\ Len(analyzerPauses') = Cardinality(long)
              /\ { <<analyzerPauses'[i].start, analyzerPauses'[i].end>> : i \in DOMAIN analyzerPauses' }
                   = { RunSpan(buffer, r) : r \in long }]_vars

\* C26: a recorded interval is PAUSE_SHORT iff its duration is below 250 ms,
\* PAUSE_MED iff it is at least 250 and below 500 ms, PAUSE_LONG iff it is
\* at least 500 ms; the last interval of a buffer that ends in silence too.
C26_ClassifiedByDuration ==
    \A i \in DOMAIN analyzerPauses :
        LET d == analyzerPauses[i].duration
            type == analyzerPauses[i].type
        IN  /\ type \in PausePhonemes
            /\ (type = "PAUSE_SHORT") = (d < 250 * 1000)
            /\ (type = "PAUSE_MED") = (d >= 250 * 1000 /\ d < 500 * 1000)
            /\ (type = "PAUSE_LONG") = (d >= 500 * 1000)

\* an interval of exactly 250 ms is Medium, and the buffer ended in a pause
\* of exactly 250 ms that is Medium too
C26_Witness ==
    /\ lastOp.op = "analyzeAudio" /\ Len(analyzerPauses) = 2
    /\ analyzerPauses[1].duration = 250 * 1000 /\ analyzerPauses[1].type = "PAUSE_MED"
    /\ analyzerPauses[2].end = lastOp.text[1].length
    /\ analyzerPauses[2].duration = 250 * 1000 /\ analyzerPauses[2].type = "PAUSE_MED"

\* C27: the intervals of an analysis are in ascending order and apart: each
\* starts before it ends and ends before the next starts.
C27_OrderedAndApart ==
    \A i \in DOMAIN analyzerPauses :
        /\ analyzerPauses[i].start < analyzerPauses[i].end
        /\ i < Len(analyzerPauses) => analyzerPauses[i].end < analyzerPauses[i + 1].start

\* an analysis found two intervals, three windows of speech apart
C27_Witness ==
    /\ lastOp.op = "analyzeAudio" /\ Len(analyzerPauses) = 2
    /\ analyzerPauses[2].start - analyzerPauses[1].end = GapWindows * windowTime

\* C28: getPauseAtTime(t) returns the first stored interval with
\* start <= t <= end, and none when t is in no stored interval.
C28_FirstIntervalHolding ==
    [][lastOp'.op = "getPauseAtTime" =>
          LET query == lastOp'.text[1]
              holding == { i \in DOMAIN analyzerPauses :
                             analyzerPauses[i].start <= query.time /\ query.time <= analyzerPauses[i].end }
          IN  IF holding = {} THEN query.pause = << >>
              ELSE \E i \in holding :
                      /\ \A j \in holding : i <= j
                      /\ query.pause = << analyzerPauses[i] >>]_vars

\* a query at the very end of a stored interval returned that interval
C28_Witness ==
    /\ lastOp.op = "getPauseAtTime"
    /\ lastOp.text[1].pause # << >>
    /\ lastOp.text[1].time = lastOp.text[1].pause[1].end

\* C29: a frame callback that runs while isAnimating is false changes no
\* current weight, no target weight and no output of a channel, and requests
\* no further frame: the callback that ran is gone and none took its place.
C29_IdleTickNoOp ==
    [][(lastOp'.op = "frame" /\ ~isAnimating) =>
          /\ currentBlendShapes' = currentBlendShapes
          /\ targetBlendShapes' = targetBlendShapes
          /\ output' = output
          /\ rafPending' = rafPending - 1]_vars

\* a frame callback has run while isAnimating was false and a channel was
\* away from its target
C29_Witness ==
    /\ lastOp.op = "frame"
    /\ ~isAnimating
    /\ \E n \in DOMAIN targetBlendShapes :
           targetBlendShapes[n] # MapGet(currentBlendShapes, n, 0)

C31_PoseNeutralWhileInPause ==
    [][lastOp'.op \in PollFound =>
          \A n \in blendShapeControls \ ProtectedChannels :
              MapGet(targetBlendShapes', n, 0) = 0]_vars

\* the steps that run clearAudioSource or startAudioPauseMonitoring
SourceResets ==
    {"stopAnimation", "clearAudioSource", "setAudioSourceBegin", "setAudioSourceNoData",
     "setAudioSourceActive", "speakBegin", "speakCached", "speakRemote", "speakFallback"}

\* the ids of the intervals a poll can find in the intervals analysed
FoundIds ==
    { PauseId(analyzerPauses[i]) : i \in DOMAIN analyzerPauses }

\* C32: lastAppliedPauseId changes only when a poll applies a pause (to the
\* id of the interval found) or when the source is reset (to null). A poll
\* that finds no interval leaves currentlyInPause false and the id as it
\* was; a poll that applies nothing, because it finds the interval applied
\* last while in pause or because the animation is not running, changes
\* neither of the two.
C32_IdKeptOnExit ==
    [][/\ lastAppliedPauseId' # lastAppliedPauseId =>
             \/ lastOp'.op = "pollApply" /\ lastAppliedPauseId' \in FoundIds
             \/ lastOp'.op \in SourceResets /\ lastAppliedPauseId' = << >>
       /\ lastOp'.op \in {"pollExit", "pollNone"} =>
             (~currentlyInPause' /\ lastAppliedPauseId' = lastAppliedPauseId)
       /\ lastOp'.op \in {"pollSkip", "pollIdle"} =>
             /\ currentlyInPause' = currentlyInPause
             /\ lastAppliedPauseId' = lastAppliedPauseId]_vars

\* a poll has left a pause and the id of the interval applied last is kept
C32_Witness == lastOp.op = "pollExit" /\ ~currentlyInPause /\ lastAppliedPauseId # << >>

\* C33: a poll that finds an active interval with id X applies the pause
\* pose exactly when the state is not in pause, or is in pause with an id
\* applied last that differs from X. After an application the state is in
\* pause with X applied last: so a poll that finds interval B right after
\* polls inside interval A applies B, and the polls in B that follow do not.
C33_ApplyIffEnteredOrChanged ==
    [][lastOp'.op \in PollFound =>
          LET X == pollHist'[1]
          IN  /\ lastOp'.op = "pollApply" <=> (~currentlyInPause \/ lastAppliedPauseId # X)
              /\ lastOp'.op = "pollApply" =>
                    /\ currentlyInPause' /\ lastAppliedPauseId' = X
                    /\ \A n \in blendShapeControls \ ProtectedChannels :
                           MapGet(targetBlendShapes', n, 0) = 0
              /\ lastOp'.op = "pollSkip" =>
                    /\ currentlyInPause' /\ lastAppliedPauseId' = X
                    /\ targetBlendShapes' = targetBlendShapes]_vars

\* a poll in one interval was followed by a poll in another interval, which
\* applied the pause of that interval
C33_Witness ==
    /\ lastOp.op = "pollApply" /\ lastOp.text = << "switched" >>
    /\ currentlyInPause
    /\ Len(analyzerPauses) = 2
    /\ lastAppliedPauseId \in FoundIds

\* C34: the timers of an utterance are started in one step, after its
\* phoneme sequence is there: a step that starts timers is the rest of a
\* speak call after its lookup (or the fallback) has completed, the timers
\* it starts are one Apply timer per phoneme and the Anticipate timers, all
\* of one utterance that had no timer before, and the step of speak up to
\* its lookup starts none. No step takes place inside another.
C34_TimelineStartedWhole ==
    [][/\ lastOp'.op = "speakBegin" => timers' \subseteq timers
       /\ StepTimers # {} =>
             /\ lastOp'.op \in {"speakRemote", "speakCached", "speakFallback"}
             /\ \A e \in StepTimers :
                    e.utt = currentUtt' /\ (\A f \in timers : f.utt # e.utt)
             /\ Cardinality({ e \in StepTimers : e.kind = "Apply" }) = Len(StepPhonemes)
             /\ Cardinality({ e \in StepTimers : e.kind = "Anticipate" }) =
                    IF anticipation.enabled THEN Len(StepPhonemes) - 1 ELSE 0]_vars

\* a speak call has started its whole timeline while another call awaits its
\* lookup and timers of an earlier utterance are pending
C34_Witness ==
    /\ lastOp.op \in {"speakRemote", "speakFallback"}
    /\ Cardinality({ e \in timers : e.utt = currentUtt }) >= 3
    /\ \/ speakCalls # << >>
       \/ \E e \in timers : e.utt # currentUtt

\* ---- the windower and the trailing pause (SpecWindow, SpecDetect)
\* sampleRate * 0.01 rounded to the nearest whole number, halves upwards
RoundedWindow(sampleRate) == (sampleRate + 50) \div 100

\* C35: the length of an analysis window in samples is sampleRate * 0.01
\* rounded to the nearest whole number, for every sample rate, also where
\* sampleRate * 0.01 has a fractional part of one half or more (22050 Hz).
C35_WindowIsRounded ==
    lastOp.op = "windows" =>
        lastOp.text[1].windowSize = RoundedWindow(lastOp.text[1].sampleRate)

\* the maximal run of silent windows a buffer ends with, if it ends with one
TrailingRuns(buffer) == { r \in MaximalRuns(buffer) : r[2] = WindowCount(buffer) }

\* C36: when the last window of a buffer is silent, the pause that is open
\* at the end is closed at the end time of the buffer; it is recorded, as the
\* last interval and with the type its duration has by the thresholds, if
\* and only if the end of the buffer minus its start is at least
\* minPauseDuration. A buffer that is silent throughout and long enough
\* yields exactly one interval, which starts at 0.
C36_TrailingPauseClosedAtEnd ==
    [][lastOp'.op = "analyzeAudio" =>
          LET buffer == lastOp'.text[1]
              pauses == analyzerPauses'
          IN  \A r \in TrailingRuns(buffer) :
                  LET start == RunSpan(buffer, r)[1]
                      recorded == { i \in DOMAIN pauses :
                                      pauses[i].start = start /\ pauses[i].end = buffer.length }
                  IN  /\ (recorded # {}) <=> (buffer.length - start >= minPauseDuration * 10)
                      /\ \A i \in recorded :
                             /\ i = Len(pauses)
                             /\ pauses[i].type = classifyPause(pauses[i].duration)
                      /\ (r[1] = 1 /\ buffer.length >= minPauseDuration * 10) =>
                             (Len(pauses) = 1 /\ pauses[1].start = 0)]_vars

\* ---- the end of an utterance and the frame loop (SpecUtterance, Spec)
\* C37: the animation stops by itself: once speak has scheduled a timeline
\* and no further call is made, isAnimating becomes false and no frame
\* callback is pending any more.
C37_AnimationStopsByItself ==
    (lastOp.op \in {"speakRemote", "speakCached", "speakFallback"})
        ~> (~isAnimating /\ rafPending = 0)

\* C38: at most one frame loop is alive: in every reachable state at most
\* one animation-frame callback of animate() is pending.
C38_OneFrameLoop == rafPending <= 1

\* ---- overlapping calls (SpecSync, Spec)
\* C39: the intervals the poll consults were analysed from the source that
\* is attached: when a setAudioSource call starts the poll while an element
\* is attached and the animation runs (so that the poll reads the clock and
\* consults the intervals), the element of that call is the attached
\* element, whose clock the poll reads, and the intervals of the analyzer
\* are those of the data of that call, also when two calls overlap and
\* their analyses complete in either order.
C39_IntervalsOfAttachedSource ==
    [][(lastOp'.op = "setAudioSourceActive" /\ currentAudio' # NULL /\ isAnimating') =>
          \E i \in DOMAIN audioCalls :
              /\ audioCalls' = RemoveAt(audioCalls, i)
              /\ audioCalls[i].element = currentAudio'
              /\ analyzerPauses' = PausesOf(audioCalls[i].data)]_vars

\* the phoneme speed of a preset: that of normal when the preset is unknown
SpeedOf(speed) == IF speed \in DOMAIN speechRate THEN speechRate[speed] ELSE speechRate.normal

\* C40: the timeline and the duration of speak(text, speed) are computed with
\* the speed preset of that call (normal when the preset is unknown), also
\* when another speak call with another preset has started while the call
\* awaited its phonemes.
C40_SpeedOfTheSameCall ==
    [][lastOp'.op \in {"speakRemote", "speakCached", "speakFallback"} =>
          \E i \in DOMAIN speakCalls :
              LET call == speakCalls[i]
                  speedMs == SpeedOf(call.speed)
              IN  /\ speakCalls' = RemoveAt(speakCalls, i)
                  /\ call.text = lastOp'.text
                  /\ lastOp'.dur = LastPhonemeTime(StepPhonemes, speedMs) + endDelayMs * 100
                  /\ StepTimers = TimelineEvents(Prepared(StepPhonemes, anticipation, speedMs),
                                                 speedMs, currentUtt')]_vars

====
